---- MODULE Spec2Model ----
(***************************************************************************)
(* A model of textblock_clustering: the watermark filter and span          *)
(* extraction done when a TextClustering is constructed (watermark.py,     *)
(* clustering.py extract_spans), and cluster_spans_bfs with its helpers    *)
(* merge_short_spans, maybe_join_text and inject_missing_underscores.      *)
(*                                                                         *)
(* Conventions.                                                            *)
(*  - A text is a sequence of characters, and a character is its Unicode   *)
(*    code point: \h0434 for U+0434, as the source's \u escapes name it,   *)
(*    \h5F for '_'.                                                        *)
(*  - Coordinates, sizes and thresholds are integers.  Where the code      *)
(*    halves a sum ((a + b) / 2.0) or pads by 0.5 the model compares the   *)
(*    doubled quantities, which is exact.                                  *)
(*  - Python list index k is index k + 1 here.                             *)
(***************************************************************************)
EXTENDS Integers, Sequences, FiniteSets, TLC

VARIABLES
  pc,          \* position in the construction / in cluster_spans_bfs
  page_spans,  \* raw span dicts of page.get_text('dict'), in page order
  page_links,  \* page.get_links()
  page_drawings, \* page.get_drawings()
  flags,       \* [use_color_hint, external_links_only] of the detector call
  candidates,  \* find_textual_watermarks_on_page(page, flags)
  wm_boxes,    \* the boxes held by make_watermark_span_filter(page, flags)
  skip_boxes,  \* the boxes held by skip_wm, the filter of extract_spans
  spans,       \* self.spans
  drawings,    \* self.drawings
  params,      \* the arguments of cluster_spans_bfs
  adjacency,   \* adjacency lists
  visited,     \* visited flags of the traversal
  clusters,    \* components found so far, in discovery order
  blocks,      \* the Block list before the final sort
  result,      \* the list cluster_spans_bfs returns
  join_prev,   \* first argument of a maybe_join_text call
  join_next,   \* second argument of a maybe_join_text call
  joined       \* what the maybe_join_text call returned

vars ==
  << pc, page_spans, page_links, page_drawings, flags, candidates, wm_boxes,
     skip_boxes,
     spans, drawings, params, adjacency, visited, clusters, blocks, result,
     join_prev, join_next, joined >>

----------------------------------------------------------------------------
(* Program constants (constants.py).                                       *)

DRAWING_Y_TOLERANCE_PX == 4
DRAWING_MIN_LENGTH_PX == 30
SIGN_SAME_LINE_Y_TOL_PX == 16
SIGN_LINE_RIGHT_MIN_GAP_PX == 5
UNDERLINE_PIXELS_PER_CHAR == 7
UNDERLINE_MIN_CHARS == 5
FAKE_UNDERLINE_Y_PAD_PX == 1
FAKE_UNDERLINE_FONT_SIZE_PT == 14
\* 'Times New Roman'
FAKE_UNDERLINE_FONT_NAME ==
  << \h54, \h69, \h6D, \h65, \h73, \h20, \h4E, \h65, \h77, \h20,
     \h52, \h6F, \h6D, \h61, \h6E >>
SCORE_STRONG_WEIGHT == 3
NEAR_WHITE_DEFAULT == 15790320
\* PAD_DEFAULT = 0.5, doubled
PAD_DEFAULT_X2 == 1
TEXT_BLOCK_TYPE == 0

----------------------------------------------------------------------------
(* Generic helpers.                                                        *)

Min2(a, b) == IF a <= b THEN a ELSE b
Max2(a, b) == IF a >= b THEN a ELSE b
Abs(a) == IF a < 0 THEN -a ELSE a

RECURSIVE Concat(_)
\* The concatenation of a sequence of sequences.
Concat(ss) == IF ss = << >> THEN << >> ELSE Head(ss) \o Concat(Tail(ss))

\* Whether `word` occurs in `text` as a contiguous run.
Contains(text, word) ==
  \E i \in 0..(Len(text) - Len(word)) :
    \A k \in 1..Len(word) : text[i + k] = word[k]

RECURSIVE Repeat(_, _)
\* Python's c * n.
Repeat(c, n) == IF n <= 0 THEN << >> ELSE <<c>> \o Repeat(c, n - 1)

----------------------------------------------------------------------------
(* Characters.  A character is its Unicode code point, written in          *)
(* hexadecimal as the source's \u escapes are: \h0434 is U+0434 and \h5F   *)
(* is '_'.  The tables are those of the interpreter's Unicode database     *)
(* (CPython 3.11, Unicode 14.0).                                           *)

\* The code points of all the ranges of a table.
CharsOf(ranges) == UNION { r[1]..r[2] : r \in ranges }

\* The characters str.strip and str.lstrip remove and the regex class \s
\* matches (str.isspace).
WhitespaceChars ==
  {
    \h09, \h0A, \h0B, \h0C, \h0D, \h1C, \h1D, \h1E, \h1F, \h20, \h85, \hA0,
    \h1680, \h2000, \h2001, \h2002, \h2003, \h2004, \h2005, \h2006, \h2007,
    \h2008, \h2009, \h200A, \h2028, \h2029, \h202F, \h205F, \h3000
  }

\* The code point ranges on which str.isalpha() is True.
AlphaRanges ==
  {
    << 65, 90 >>, << 97, 122 >>, << 170, 170 >>, << 181, 181 >>,
    << 186, 186 >>, << 192, 214 >>, << 216, 246 >>, << 248, 705 >>,
    << 710, 721 >>, << 736, 740 >>, << 748, 748 >>, << 750, 750 >>,
    << 880, 884 >>, << 886, 887 >>, << 890, 893 >>, << 895, 895 >>,
    << 902, 902 >>, << 904, 906 >>, << 908, 908 >>, << 910, 929 >>,
    << 931, 1013 >>, << 1015, 1153 >>, << 1162, 1327 >>, << 1329, 1366 >>,
    << 1369, 1369 >>, << 1376, 1416 >>, << 1488, 1514 >>, << 1519, 1522 >>,
    << 1568, 1610 >>, << 1646, 1647 >>, << 1649, 1747 >>, << 1749, 1749 >>,
    << 1765, 1766 >>, << 1774, 1775 >>, << 1786, 1788 >>, << 1791, 1791 >>,
    << 1808, 1808 >>, << 1810, 1839 >>, << 1869, 1957 >>, << 1969, 1969 >>,
    << 1994, 2026 >>, << 2036, 2037 >>, << 2042, 2042 >>, << 2048, 2069 >>,
    << 2074, 2074 >>, << 2084, 2084 >>, << 2088, 2088 >>, << 2112, 2136 >>,
    << 2144, 2154 >>, << 2160, 2183 >>, << 2185, 2190 >>, << 2208, 2249 >>,
    << 2308, 2361 >>, << 2365, 2365 >>, << 2384, 2384 >>, << 2392, 2401 >>,
    << 2417, 2432 >>, << 2437, 2444 >>, << 2447, 2448 >>, << 2451, 2472 >>,
    << 2474, 2480 >>, << 2482, 2482 >>, << 2486, 2489 >>, << 2493, 2493 >>,
    << 2510, 2510 >>, << 2524, 2525 >>, << 2527, 2529 >>, << 2544, 2545 >>,
    << 2556, 2556 >>, << 2565, 2570 >>, << 2575, 2576 >>, << 2579, 2600 >>,
    << 2602, 2608 >>, << 2610, 2611 >>, << 2613, 2614 >>, << 2616, 2617 >>,
    << 2649, 2652 >>, << 2654, 2654 >>, << 2674, 2676 >>, << 2693, 2701 >>,
    << 2703, 2705 >>, << 2707, 2728 >>, << 2730, 2736 >>, << 2738, 2739 >>,
    << 2741, 2745 >>, << 2749, 2749 >>, << 2768, 2768 >>, << 2784, 2785 >>,
    << 2809, 2809 >>, << 2821, 2828 >>, << 2831, 2832 >>, << 2835, 2856 >>,
    << 2858, 2864 >>, << 2866, 2867 >>, << 2869, 2873 >>, << 2877, 2877 >>,
    << 2908, 2909 >>, << 2911, 2913 >>, << 2929, 2929 >>, << 2947, 2947 >>,
    << 2949, 2954 >>, << 2958, 2960 >>, << 2962, 2965 >>, << 2969, 2970 >>,
    << 2972, 2972 >>, << 2974, 2975 >>, << 2979, 2980 >>, << 2984, 2986 >>,
    << 2990, 3001 >>, << 3024, 3024 >>, << 3077, 3084 >>, << 3086, 3088 >>,
    << 3090, 3112 >>, << 3114, 3129 >>, << 3133, 3133 >>, << 3160, 3162 >>,
    << 3165, 3165 >>, << 3168, 3169 >>, << 3200, 3200 >>, << 3205, 3212 >>,
    << 3214, 3216 >>, << 3218, 3240 >>, << 3242, 3251 >>, << 3253, 3257 >>,
    << 3261, 3261 >>, << 3293, 3294 >>, << 3296, 3297 >>, << 3313, 3314 >>,
    << 3332, 3340 >>, << 3342, 3344 >>, << 3346, 3386 >>, << 3389, 3389 >>,
    << 3406, 3406 >>, << 3412, 3414 >>, << 3423, 3425 >>, << 3450, 3455 >>,
    << 3461, 3478 >>, << 3482, 3505 >>, << 3507, 3515 >>, << 3517, 3517 >>,
    << 3520, 3526 >>, << 3585, 3632 >>, << 3634, 3635 >>, << 3648, 3654 >>,
    << 3713, 3714 >>, << 3716, 3716 >>, << 3718, 3722 >>, << 3724, 3747 >>,
    << 3749, 3749 >>, << 3751, 3760 >>, << 3762, 3763 >>, << 3773, 3773 >>,
    << 3776, 3780 >>, << 3782, 3782 >>, << 3804, 3807 >>, << 3840, 3840 >>,
    << 3904, 3911 >>, << 3913, 3948 >>, << 3976, 3980 >>, << 4096, 4138 >>,
    << 4159, 4159 >>, << 4176, 4181 >>, << 4186, 4189 >>, << 4193, 4193 >>,
    << 4197, 4198 >>, << 4206, 4208 >>, << 4213, 4225 >>, << 4238, 4238 >>,
    << 4256, 4293 >>, << 4295, 4295 >>, << 4301, 4301 >>, << 4304, 4346 >>,
    << 4348, 4680 >>, << 4682, 4685 >>, << 4688, 4694 >>, << 4696, 4696 >>,
    << 4698, 4701 >>, << 4704, 4744 >>, << 4746, 4749 >>, << 4752, 4784 >>,
    << 4786, 4789 >>, << 4792, 4798 >>, << 4800, 4800 >>, << 4802, 4805 >>,
    << 4808, 4822 >>, << 4824, 4880 >>, << 4882, 4885 >>, << 4888, 4954 >>,
    << 4992, 5007 >>, << 5024, 5109 >>, << 5112, 5117 >>, << 5121, 5740 >>,
    << 5743, 5759 >>, << 5761, 5786 >>, << 5792, 5866 >>, << 5873, 5880 >>,
    << 5888, 5905 >>, << 5919, 5937 >>, << 5952, 5969 >>, << 5984, 5996 >>,
    << 5998, 6000 >>, << 6016, 6067 >>, << 6103, 6103 >>, << 6108, 6108 >>,
    << 6176, 6264 >>, << 6272, 6276 >>, << 6279, 6312 >>, << 6314, 6314 >>,
    << 6320, 6389 >>, << 6400, 6430 >>, << 6480, 6509 >>, << 6512, 6516 >>,
    << 6528, 6571 >>, << 6576, 6601 >>, << 6656, 6678 >>, << 6688, 6740 >>,
    << 6823, 6823 >>, << 6917, 6963 >>, << 6981, 6988 >>, << 7043, 7072 >>,
    << 7086, 7087 >>, << 7098, 7141 >>, << 7168, 7203 >>, << 7245, 7247 >>,
    << 7258, 7293 >>, << 7296, 7304 >>, << 7312, 7354 >>, << 7357, 7359 >>,
    << 7401, 7404 >>, << 7406, 7411 >>, << 7413, 7414 >>, << 7418, 7418 >>,
    << 7424, 7615 >>, << 7680, 7957 >>, << 7960, 7965 >>, << 7968, 8005 >>,
    << 8008, 8013 >>, << 8016, 8023 >>, << 8025, 8025 >>, << 8027, 8027 >>,
    << 8029, 8029 >>, << 8031, 8061 >>, << 8064, 8116 >>, << 8118, 8124 >>,
    << 8126, 8126 >>, << 8130, 8132 >>, << 8134, 8140 >>, << 8144, 8147 >>,
    << 8150, 8155 >>, << 8160, 8172 >>, << 8178, 8180 >>, << 8182, 8188 >>,
    << 8305, 8305 >>, << 8319, 8319 >>, << 8336, 8348 >>, << 8450, 8450 >>,
    << 8455, 8455 >>, << 8458, 8467 >>, << 8469, 8469 >>, << 8473, 8477 >>,
    << 8484, 8484 >>, << 8486, 8486 >>, << 8488, 8488 >>, << 8490, 8493 >>,
    << 8495, 8505 >>, << 8508, 8511 >>, << 8517, 8521 >>, << 8526, 8526 >>,
    << 8579, 8580 >>, << 11264, 11492 >>, << 11499, 11502 >>, << 11506, 11507 >>,
    << 11520, 11557 >>, << 11559, 11559 >>, << 11565, 11565 >>, << 11568, 11623 >>,
    << 11631, 11631 >>, << 11648, 11670 >>, << 11680, 11686 >>, << 11688, 11694 >>,
    << 11696, 11702 >>, << 11704, 11710 >>, << 11712, 11718 >>, << 11720, 11726 >>,
    << 11728, 11734 >>, << 11736, 11742 >>, << 11823, 11823 >>, << 12293, 12294 >>,
    << 12337, 12341 >>, << 12347, 12348 >>, << 12353, 12438 >>, << 12445, 12447 >>,
    << 12449, 12538 >>, << 12540, 12543 >>, << 12549, 12591 >>, << 12593, 12686 >>,
    << 12704, 12735 >>, << 12784, 12799 >>, << 13312, 19903 >>, << 19968, 42124 >>,
    << 42192, 42237 >>, << 42240, 42508 >>, << 42512, 42527 >>, << 42538, 42539 >>,
    << 42560, 42606 >>, << 42623, 42653 >>, << 42656, 42725 >>, << 42775, 42783 >>,
    << 42786, 42888 >>, << 42891, 42954 >>, << 42960, 42961 >>, << 42963, 42963 >>,
    << 42965, 42969 >>, << 42994, 43009 >>, << 43011, 43013 >>, << 43015, 43018 >>,
    << 43020, 43042 >>, << 43072, 43123 >>, << 43138, 43187 >>, << 43250, 43255 >>,
    << 43259, 43259 >>, << 43261, 43262 >>, << 43274, 43301 >>, << 43312, 43334 >>,
    << 43360, 43388 >>, << 43396, 43442 >>, << 43471, 43471 >>, << 43488, 43492 >>,
    << 43494, 43503 >>, << 43514, 43518 >>, << 43520, 43560 >>, << 43584, 43586 >>,
    << 43588, 43595 >>, << 43616, 43638 >>, << 43642, 43642 >>, << 43646, 43695 >>,
    << 43697, 43697 >>, << 43701, 43702 >>, << 43705, 43709 >>, << 43712, 43712 >>,
    << 43714, 43714 >>, << 43739, 43741 >>, << 43744, 43754 >>, << 43762, 43764 >>,
    << 43777, 43782 >>, << 43785, 43790 >>, << 43793, 43798 >>, << 43808, 43814 >>,
    << 43816, 43822 >>, << 43824, 43866 >>, << 43868, 43881 >>, << 43888, 44002 >>,
    << 44032, 55203 >>, << 55216, 55238 >>, << 55243, 55291 >>, << 63744, 64109 >>,
    << 64112, 64217 >>, << 64256, 64262 >>, << 64275, 64279 >>, << 64285, 64285 >>,
    << 64287, 64296 >>, << 64298, 64310 >>, << 64312, 64316 >>, << 64318, 64318 >>,
    << 64320, 64321 >>, << 64323, 64324 >>, << 64326, 64433 >>, << 64467, 64829 >>,
    << 64848, 64911 >>, << 64914, 64967 >>, << 65008, 65019 >>, << 65136, 65140 >>,
    << 65142, 65276 >>, << 65313, 65338 >>, << 65345, 65370 >>, << 65382, 65470 >>,
    << 65474, 65479 >>, << 65482, 65487 >>, << 65490, 65495 >>, << 65498, 65500 >>,
    << 65536, 65547 >>, << 65549, 65574 >>, << 65576, 65594 >>, << 65596, 65597 >>,
    << 65599, 65613 >>, << 65616, 65629 >>, << 65664, 65786 >>, << 66176, 66204 >>,
    << 66208, 66256 >>, << 66304, 66335 >>, << 66349, 66368 >>, << 66370, 66377 >>,
    << 66384, 66421 >>, << 66432, 66461 >>, << 66464, 66499 >>, << 66504, 66511 >>,
    << 66560, 66717 >>, << 66736, 66771 >>, << 66776, 66811 >>, << 66816, 66855 >>,
    << 66864, 66915 >>, << 66928, 66938 >>, << 66940, 66954 >>, << 66956, 66962 >>,
    << 66964, 66965 >>, << 66967, 66977 >>, << 66979, 66993 >>, << 66995, 67001 >>,
    << 67003, 67004 >>, << 67072, 67382 >>, << 67392, 67413 >>, << 67424, 67431 >>,
    << 67456, 67461 >>, << 67463, 67504 >>, << 67506, 67514 >>, << 67584, 67589 >>,
    << 67592, 67592 >>, << 67594, 67637 >>, << 67639, 67640 >>, << 67644, 67644 >>,
    << 67647, 67669 >>, << 67680, 67702 >>, << 67712, 67742 >>, << 67808, 67826 >>,
    << 67828, 67829 >>, << 67840, 67861 >>, << 67872, 67897 >>, << 67968, 68023 >>,
    << 68030, 68031 >>, << 68096, 68096 >>, << 68112, 68115 >>, << 68117, 68119 >>,
    << 68121, 68149 >>, << 68192, 68220 >>, << 68224, 68252 >>, << 68288, 68295 >>,
    << 68297, 68324 >>, << 68352, 68405 >>, << 68416, 68437 >>, << 68448, 68466 >>,
    << 68480, 68497 >>, << 68608, 68680 >>, << 68736, 68786 >>, << 68800, 68850 >>,
    << 68864, 68899 >>, << 69248, 69289 >>, << 69296, 69297 >>, << 69376, 69404 >>,
    << 69415, 69415 >>, << 69424, 69445 >>, << 69488, 69505 >>, << 69552, 69572 >>,
    << 69600, 69622 >>, << 69635, 69687 >>, << 69745, 69746 >>, << 69749, 69749 >>,
    << 69763, 69807 >>, << 69840, 69864 >>, << 69891, 69926 >>, << 69956, 69956 >>,
    << 69959, 69959 >>, << 69968, 70002 >>, << 70006, 70006 >>, << 70019, 70066 >>,
    << 70081, 70084 >>, << 70106, 70106 >>, << 70108, 70108 >>, << 70144, 70161 >>,
    << 70163, 70187 >>, << 70272, 70278 >>, << 70280, 70280 >>, << 70282, 70285 >>,
    << 70287, 70301 >>, << 70303, 70312 >>, << 70320, 70366 >>, << 70405, 70412 >>,
    << 70415, 70416 >>, << 70419, 70440 >>, << 70442, 70448 >>, << 70450, 70451 >>,
    << 70453, 70457 >>, << 70461, 70461 >>, << 70480, 70480 >>, << 70493, 70497 >>,
    << 70656, 70708 >>, << 70727, 70730 >>, << 70751, 70753 >>, << 70784, 70831 >>,
    << 70852, 70853 >>, << 70855, 70855 >>, << 71040, 71086 >>, << 71128, 71131 >>,
    << 71168, 71215 >>, << 71236, 71236 >>, << 71296, 71338 >>, << 71352, 71352 >>,
    << 71424, 71450 >>, << 71488, 71494 >>, << 71680, 71723 >>, << 71840, 71903 >>,
    << 71935, 71942 >>, << 71945, 71945 >>, << 71948, 71955 >>, << 71957, 71958 >>,
    << 71960, 71983 >>, << 71999, 71999 >>, << 72001, 72001 >>, << 72096, 72103 >>,
    << 72106, 72144 >>, << 72161, 72161 >>, << 72163, 72163 >>, << 72192, 72192 >>,
    << 72203, 72242 >>, << 72250, 72250 >>, << 72272, 72272 >>, << 72284, 72329 >>,
    << 72349, 72349 >>, << 72368, 72440 >>, << 72704, 72712 >>, << 72714, 72750 >>,
    << 72768, 72768 >>, << 72818, 72847 >>, << 72960, 72966 >>, << 72968, 72969 >>,
    << 72971, 73008 >>, << 73030, 73030 >>, << 73056, 73061 >>, << 73063, 73064 >>,
    << 73066, 73097 >>, << 73112, 73112 >>, << 73440, 73458 >>, << 73648, 73648 >>,
    << 73728, 74649 >>, << 74880, 75075 >>, << 77712, 77808 >>, << 77824, 78894 >>,
    << 82944, 83526 >>, << 92160, 92728 >>, << 92736, 92766 >>, << 92784, 92862 >>,
    << 92880, 92909 >>, << 92928, 92975 >>, << 92992, 92995 >>, << 93027, 93047 >>,
    << 93053, 93071 >>, << 93760, 93823 >>, << 93952, 94026 >>, << 94032, 94032 >>,
    << 94099, 94111 >>, << 94176, 94177 >>, << 94179, 94179 >>, << 94208, 100343 >>,
    << 100352, 101589 >>, << 101632, 101640 >>, << 110576, 110579 >>, << 110581, 110587 >>,
    << 110589, 110590 >>, << 110592, 110882 >>, << 110928, 110930 >>, << 110948, 110951 >>,
    << 110960, 111355 >>, << 113664, 113770 >>, << 113776, 113788 >>, << 113792, 113800 >>,
    << 113808, 113817 >>, << 119808, 119892 >>, << 119894, 119964 >>, << 119966, 119967 >>,
    << 119970, 119970 >>, << 119973, 119974 >>, << 119977, 119980 >>, << 119982, 119993 >>,
    << 119995, 119995 >>, << 119997, 120003 >>, << 120005, 120069 >>, << 120071, 120074 >>,
    << 120077, 120084 >>, << 120086, 120092 >>, << 120094, 120121 >>, << 120123, 120126 >>,
    << 120128, 120132 >>, << 120134, 120134 >>, << 120138, 120144 >>, << 120146, 120485 >>,
    << 120488, 120512 >>, << 120514, 120538 >>, << 120540, 120570 >>, << 120572, 120596 >>,
    << 120598, 120628 >>, << 120630, 120654 >>, << 120656, 120686 >>, << 120688, 120712 >>,
    << 120714, 120744 >>, << 120746, 120770 >>, << 120772, 120779 >>, << 122624, 122654 >>,
    << 123136, 123180 >>, << 123191, 123197 >>, << 123214, 123214 >>, << 123536, 123565 >>,
    << 123584, 123627 >>, << 124896, 124902 >>, << 124904, 124907 >>, << 124909, 124910 >>,
    << 124912, 124926 >>, << 124928, 125124 >>, << 125184, 125251 >>, << 125259, 125259 >>,
    << 126464, 126467 >>, << 126469, 126495 >>, << 126497, 126498 >>, << 126500, 126500 >>,
    << 126503, 126503 >>, << 126505, 126514 >>, << 126516, 126519 >>, << 126521, 126521 >>,
    << 126523, 126523 >>, << 126530, 126530 >>, << 126535, 126535 >>, << 126537, 126537 >>,
    << 126539, 126539 >>, << 126541, 126543 >>, << 126545, 126546 >>, << 126548, 126548 >>,
    << 126551, 126551 >>, << 126553, 126553 >>, << 126555, 126555 >>, << 126557, 126557 >>,
    << 126559, 126559 >>, << 126561, 126562 >>, << 126564, 126564 >>, << 126567, 126570 >>,
    << 126572, 126578 >>, << 126580, 126583 >>, << 126585, 126588 >>, << 126590, 126590 >>,
    << 126592, 126601 >>, << 126603, 126619 >>, << 126625, 126627 >>, << 126629, 126633 >>,
    << 126635, 126651 >>, << 131072, 173791 >>, << 173824, 177976 >>, << 177984, 178205 >>,
    << 178208, 183969 >>, << 183984, 191456 >>, << 194560, 195101 >>, << 196608, 201546 >>
  }

\* The code point ranges on which str.isupper() is True.
UpperRanges ==
  {
    << 65, 90 >>, << 192, 214 >>, << 216, 222 >>, << 256, 256 >>,
    << 258, 258 >>, << 260, 260 >>, << 262, 262 >>, << 264, 264 >>,
    << 266, 266 >>, << 268, 268 >>, << 270, 270 >>, << 272, 272 >>,
    << 274, 274 >>, << 276, 276 >>, << 278, 278 >>, << 280, 280 >>,
    << 282, 282 >>, << 284, 284 >>, << 286, 286 >>, << 288, 288 >>,
    << 290, 290 >>, << 292, 292 >>, << 294, 294 >>, << 296, 296 >>,
    << 298, 298 >>, << 300, 300 >>, << 302, 302 >>, << 304, 304 >>,
    << 306, 306 >>, << 308, 308 >>, << 310, 310 >>, << 313, 313 >>,
    << 315, 315 >>, << 317, 317 >>, << 319, 319 >>, << 321, 321 >>,
    << 323, 323 >>, << 325, 325 >>, << 327, 327 >>, << 330, 330 >>,
    << 332, 332 >>, << 334, 334 >>, << 336, 336 >>, << 338, 338 >>,
    << 340, 340 >>, << 342, 342 >>, << 344, 344 >>, << 346, 346 >>,
    << 348, 348 >>, << 350, 350 >>, << 352, 352 >>, << 354, 354 >>,
    << 356, 356 >>, << 358, 358 >>, << 360, 360 >>, << 362, 362 >>,
    << 364, 364 >>, << 366, 366 >>, << 368, 368 >>, << 370, 370 >>,
    << 372, 372 >>, << 374, 374 >>, << 376, 377 >>, << 379, 379 >>,
    << 381, 381 >>, << 385, 386 >>, << 388, 388 >>, << 390, 391 >>,
    << 393, 395 >>, << 398, 401 >>, << 403, 404 >>, << 406, 408 >>,
    << 412, 413 >>, << 415, 416 >>, << 418, 418 >>, << 420, 420 >>,
    << 422, 423 >>, << 425, 425 >>, << 428, 428 >>, << 430, 431 >>,
    << 433, 435 >>, << 437, 437 >>, << 439, 440 >>, << 444, 444 >>,
    << 452, 452 >>, << 455, 455 >>, << 458, 458 >>, << 461, 461 >>,
    << 463, 463 >>, << 465, 465 >>, << 467, 467 >>, << 469, 469 >>,
    << 471, 471 >>, << 473, 473 >>, << 475, 475 >>, << 478, 478 >>,
    << 480, 480 >>, << 482, 482 >>, << 484, 484 >>, << 486, 486 >>,
    << 488, 488 >>, << 490, 490 >>, << 492, 492 >>, << 494, 494 >>,
    << 497, 497 >>, << 500, 500 >>, << 502, 504 >>, << 506, 506 >>,
    << 508, 508 >>, << 510, 510 >>, << 512, 512 >>, << 514, 514 >>,
    << 516, 516 >>, << 518, 518 >>, << 520, 520 >>, << 522, 522 >>,
    << 524, 524 >>, << 526, 526 >>, << 528, 528 >>, << 530, 530 >>,
    << 532, 532 >>, << 534, 534 >>, << 536, 536 >>, << 538, 538 >>,
    << 540, 540 >>, << 542, 542 >>, << 544, 544 >>, << 546, 546 >>,
    << 548, 548 >>, << 550, 550 >>, << 552, 552 >>, << 554, 554 >>,
    << 556, 556 >>, << 558, 558 >>, << 560, 560 >>, << 562, 562 >>,
    << 570, 571 >>, << 573, 574 >>, << 577, 577 >>, << 579, 582 >>,
    << 584, 584 >>, << 586, 586 >>, << 588, 588 >>, << 590, 590 >>,
    << 880, 880 >>, << 882, 882 >>, << 886, 886 >>, << 895, 895 >>,
    << 902, 902 >>, << 904, 906 >>, << 908, 908 >>, << 910, 911 >>,
    << 913, 929 >>, << 931, 939 >>, << 975, 975 >>, << 978, 980 >>,
    << 984, 984 >>, << 986, 986 >>, << 988, 988 >>, << 990, 990 >>,
    << 992, 992 >>, << 994, 994 >>, << 996, 996 >>, << 998, 998 >>,
    << 1000, 1000 >>, << 1002, 1002 >>, << 1004, 1004 >>, << 1006, 1006 >>,
    << 1012, 1012 >>, << 1015, 1015 >>, << 1017, 1018 >>, << 1021, 1071 >>,
    << 1120, 1120 >>, << 1122, 1122 >>, << 1124, 1124 >>, << 1126, 1126 >>,
    << 1128, 1128 >>, << 1130, 1130 >>, << 1132, 1132 >>, << 1134, 1134 >>,
    << 1136, 1136 >>, << 1138, 1138 >>, << 1140, 1140 >>, << 1142, 1142 >>,
    << 1144, 1144 >>, << 1146, 1146 >>, << 1148, 1148 >>, << 1150, 1150 >>,
    << 1152, 1152 >>, << 1162, 1162 >>, << 1164, 1164 >>, << 1166, 1166 >>,
    << 1168, 1168 >>, << 1170, 1170 >>, << 1172, 1172 >>, << 1174, 1174 >>,
    << 1176, 1176 >>, << 1178, 1178 >>, << 1180, 1180 >>, << 1182, 1182 >>,
    << 1184, 1184 >>, << 1186, 1186 >>, << 1188, 1188 >>, << 1190, 1190 >>,
    << 1192, 1192 >>, << 1194, 1194 >>, << 1196, 1196 >>, << 1198, 1198 >>,
    << 1200, 1200 >>, << 1202, 1202 >>, << 1204, 1204 >>, << 1206, 1206 >>,
    << 1208, 1208 >>, << 1210, 1210 >>, << 1212, 1212 >>, << 1214, 1214 >>,
    << 1216, 1217 >>, << 1219, 1219 >>, << 1221, 1221 >>, << 1223, 1223 >>,
    << 1225, 1225 >>, << 1227, 1227 >>, << 1229, 1229 >>, << 1232, 1232 >>,
    << 1234, 1234 >>, << 1236, 1236 >>, << 1238, 1238 >>, << 1240, 1240 >>,
    << 1242, 1242 >>, << 1244, 1244 >>, << 1246, 1246 >>, << 1248, 1248 >>,
    << 1250, 1250 >>, << 1252, 1252 >>, << 1254, 1254 >>, << 1256, 1256 >>,
    << 1258, 1258 >>, << 1260, 1260 >>, << 1262, 1262 >>, << 1264, 1264 >>,
    << 1266, 1266 >>, << 1268, 1268 >>, << 1270, 1270 >>, << 1272, 1272 >>,
    << 1274, 1274 >>, << 1276, 1276 >>, << 1278, 1278 >>, << 1280, 1280 >>,
    << 1282, 1282 >>, << 1284, 1284 >>, << 1286, 1286 >>, << 1288, 1288 >>,
    << 1290, 1290 >>, << 1292, 1292 >>, << 1294, 1294 >>, << 1296, 1296 >>,
    << 1298, 1298 >>, << 1300, 1300 >>, << 1302, 1302 >>, << 1304, 1304 >>,
    << 1306, 1306 >>, << 1308, 1308 >>, << 1310, 1310 >>, << 1312, 1312 >>,
    << 1314, 1314 >>, << 1316, 1316 >>, << 1318, 1318 >>, << 1320, 1320 >>,
    << 1322, 1322 >>, << 1324, 1324 >>, << 1326, 1326 >>, << 1329, 1366 >>,
    << 4256, 4293 >>, << 4295, 4295 >>, << 4301, 4301 >>, << 5024, 5109 >>,
    << 7312, 7354 >>, << 7357, 7359 >>, << 7680, 7680 >>, << 7682, 7682 >>,
    << 7684, 7684 >>, << 7686, 7686 >>, << 7688, 7688 >>, << 7690, 7690 >>,
    << 7692, 7692 >>, << 7694, 7694 >>, << 7696, 7696 >>, << 7698, 7698 >>,
    << 7700, 7700 >>, << 7702, 7702 >>, << 7704, 7704 >>, << 7706, 7706 >>,
    << 7708, 7708 >>, << 7710, 7710 >>, << 7712, 7712 >>, << 7714, 7714 >>,
    << 7716, 7716 >>, << 7718, 7718 >>, << 7720, 7720 >>, << 7722, 7722 >>,
    << 7724, 7724 >>, << 7726, 7726 >>, << 7728, 7728 >>, << 7730, 7730 >>,
    << 7732, 7732 >>, << 7734, 7734 >>, << 7736, 7736 >>, << 7738, 7738 >>,
    << 7740, 7740 >>, << 7742, 7742 >>, << 7744, 7744 >>, << 7746, 7746 >>,
    << 7748, 7748 >>, << 7750, 7750 >>, << 7752, 7752 >>, << 7754, 7754 >>,
    << 7756, 7756 >>, << 7758, 7758 >>, << 7760, 7760 >>, << 7762, 7762 >>,
    << 7764, 7764 >>, << 7766, 7766 >>, << 7768, 7768 >>, << 7770, 7770 >>,
    << 7772, 7772 >>, << 7774, 7774 >>, << 7776, 7776 >>, << 7778, 7778 >>,
    << 7780, 7780 >>, << 7782, 7782 >>, << 7784, 7784 >>, << 7786, 7786 >>,
    << 7788, 7788 >>, << 7790, 7790 >>, << 7792, 7792 >>, << 7794, 7794 >>,
    << 7796, 7796 >>, << 7798, 7798 >>, << 7800, 7800 >>, << 7802, 7802 >>,
    << 7804, 7804 >>, << 7806, 7806 >>, << 7808, 7808 >>, << 7810, 7810 >>,
    << 7812, 7812 >>, << 7814, 7814 >>, << 7816, 7816 >>, << 7818, 7818 >>,
    << 7820, 7820 >>, << 7822, 7822 >>, << 7824, 7824 >>, << 7826, 7826 >>,
    << 7828, 7828 >>, << 7838, 7838 >>, << 7840, 7840 >>, << 7842, 7842 >>,
    << 7844, 7844 >>, << 7846, 7846 >>, << 7848, 7848 >>, << 7850, 7850 >>,
    << 7852, 7852 >>, << 7854, 7854 >>, << 7856, 7856 >>, << 7858, 7858 >>,
    << 7860, 7860 >>, << 7862, 7862 >>, << 7864, 7864 >>, << 7866, 7866 >>,
    << 7868, 7868 >>, << 7870, 7870 >>, << 7872, 7872 >>, << 7874, 7874 >>,
    << 7876, 7876 >>, << 7878, 7878 >>, << 7880, 7880 >>, << 7882, 7882 >>,
    << 7884, 7884 >>, << 7886, 7886 >>, << 7888, 7888 >>, << 7890, 7890 >>,
    << 7892, 7892 >>, << 7894, 7894 >>, << 7896, 7896 >>, << 7898, 7898 >>,
    << 7900, 7900 >>, << 7902, 7902 >>, << 7904, 7904 >>, << 7906, 7906 >>,
    << 7908, 7908 >>, << 7910, 7910 >>, << 7912, 7912 >>, << 7914, 7914 >>,
    << 7916, 7916 >>, << 7918, 7918 >>, << 7920, 7920 >>, << 7922, 7922 >>,
    << 7924, 7924 >>, << 7926, 7926 >>, << 7928, 7928 >>, << 7930, 7930 >>,
    << 7932, 7932 >>, << 7934, 7934 >>, << 7944, 7951 >>, << 7960, 7965 >>,
    << 7976, 7983 >>, << 7992, 7999 >>, << 8008, 8013 >>, << 8025, 8025 >>,
    << 8027, 8027 >>, << 8029, 8029 >>, << 8031, 8031 >>, << 8040, 8047 >>,
    << 8120, 8123 >>, << 8136, 8139 >>, << 8152, 8155 >>, << 8168, 8172 >>,
    << 8184, 8187 >>, << 8450, 8450 >>, << 8455, 8455 >>, << 8459, 8461 >>,
    << 8464, 8466 >>, << 8469, 8469 >>, << 8473, 8477 >>, << 8484, 8484 >>,
    << 8486, 8486 >>, << 8488, 8488 >>, << 8490, 8493 >>, << 8496, 8499 >>,
    << 8510, 8511 >>, << 8517, 8517 >>, << 8544, 8559 >>, << 8579, 8579 >>,
    << 9398, 9423 >>, << 11264, 11311 >>, << 11360, 11360 >>, << 11362, 11364 >>,
    << 11367, 11367 >>, << 11369, 11369 >>, << 11371, 11371 >>, << 11373, 11376 >>,
    << 11378, 11378 >>, << 11381, 11381 >>, << 11390, 11392 >>, << 11394, 11394 >>,
    << 11396, 11396 >>, << 11398, 11398 >>, << 11400, 11400 >>, << 11402, 11402 >>,
    << 11404, 11404 >>, << 11406, 11406 >>, << 11408, 11408 >>, << 11410, 11410 >>,
    << 11412, 11412 >>, << 11414, 11414 >>, << 11416, 11416 >>, << 11418, 11418 >>,
    << 11420, 11420 >>, << 11422, 11422 >>, << 11424, 11424 >>, << 11426, 11426 >>,
    << 11428, 11428 >>, << 11430, 11430 >>, << 11432, 11432 >>, << 11434, 11434 >>,
    << 11436, 11436 >>, << 11438, 11438 >>, << 11440, 11440 >>, << 11442, 11442 >>,
    << 11444, 11444 >>, << 11446, 11446 >>, << 11448, 11448 >>, << 11450, 11450 >>,
    << 11452, 11452 >>, << 11454, 11454 >>, << 11456, 11456 >>, << 11458, 11458 >>,
    << 11460, 11460 >>, << 11462, 11462 >>, << 11464, 11464 >>, << 11466, 11466 >>,
    << 11468, 11468 >>, << 11470, 11470 >>, << 11472, 11472 >>, << 11474, 11474 >>,
    << 11476, 11476 >>, << 11478, 11478 >>, << 11480, 11480 >>, << 11482, 11482 >>,
    << 11484, 11484 >>, << 11486, 11486 >>, << 11488, 11488 >>, << 11490, 11490 >>,
    << 11499, 11499 >>, << 11501, 11501 >>, << 11506, 11506 >>, << 42560, 42560 >>,
    << 42562, 42562 >>, << 42564, 42564 >>, << 42566, 42566 >>, << 42568, 42568 >>,
    << 42570, 42570 >>, << 42572, 42572 >>, << 42574, 42574 >>, << 42576, 42576 >>,
    << 42578, 42578 >>, << 42580, 42580 >>, << 42582, 42582 >>, << 42584, 42584 >>,
    << 42586, 42586 >>, << 42588, 42588 >>, << 42590, 42590 >>, << 42592, 42592 >>,
    << 42594, 42594 >>, << 42596, 42596 >>, << 42598, 42598 >>, << 42600, 42600 >>,
    << 42602, 42602 >>, << 42604, 42604 >>, << 42624, 42624 >>, << 42626, 42626 >>,
    << 42628, 42628 >>, << 42630, 42630 >>, << 42632, 42632 >>, << 42634, 42634 >>,
    << 42636, 42636 >>, << 42638, 42638 >>, << 42640, 42640 >>, << 42642, 42642 >>,
    << 42644, 42644 >>, << 42646, 42646 >>, << 42648, 42648 >>, << 42650, 42650 >>,
    << 42786, 42786 >>, << 42788, 42788 >>, << 42790, 42790 >>, << 42792, 42792 >>,
    << 42794, 42794 >>, << 42796, 42796 >>, << 42798, 42798 >>, << 42802, 42802 >>,
    << 42804, 42804 >>, << 42806, 42806 >>, << 42808, 42808 >>, << 42810, 42810 >>,
    << 42812, 42812 >>, << 42814, 42814 >>, << 42816, 42816 >>, << 42818, 42818 >>,
    << 42820, 42820 >>, << 42822, 42822 >>, << 42824, 42824 >>, << 42826, 42826 >>,
    << 42828, 42828 >>, << 42830, 42830 >>, << 42832, 42832 >>, << 42834, 42834 >>,
    << 42836, 42836 >>, << 42838, 42838 >>, << 42840, 42840 >>, << 42842, 42842 >>,
    << 42844, 42844 >>, << 42846, 42846 >>, << 42848, 42848 >>, << 42850, 42850 >>,
    << 42852, 42852 >>, << 42854, 42854 >>, << 42856, 42856 >>, << 42858, 42858 >>,
    << 42860, 42860 >>, << 42862, 42862 >>, << 42873, 42873 >>, << 42875, 42875 >>,
    << 42877, 42878 >>, << 42880, 42880 >>, << 42882, 42882 >>, << 42884, 42884 >>,
    << 42886, 42886 >>, << 42891, 42891 >>, << 42893, 42893 >>, << 42896, 42896 >>,
    << 42898, 42898 >>, << 42902, 42902 >>, << 42904, 42904 >>, << 42906, 42906 >>,
    << 42908, 42908 >>, << 42910, 42910 >>, << 42912, 42912 >>, << 42914, 42914 >>,
    << 42916, 42916 >>, << 42918, 42918 >>, << 42920, 42920 >>, << 42922, 42926 >>,
    << 42928, 42932 >>, << 42934, 42934 >>, << 42936, 42936 >>, << 42938, 42938 >>,
    << 42940, 42940 >>, << 42942, 42942 >>, << 42944, 42944 >>, << 42946, 42946 >>,
    << 42948, 42951 >>, << 42953, 42953 >>, << 42960, 42960 >>, << 42966, 42966 >>,
    << 42968, 42968 >>, << 42997, 42997 >>, << 65313, 65338 >>, << 66560, 66599 >>,
    << 66736, 66771 >>, << 66928, 66938 >>, << 66940, 66954 >>, << 66956, 66962 >>,
    << 66964, 66965 >>, << 68736, 68786 >>, << 71840, 71871 >>, << 93760, 93791 >>,
    << 119808, 119833 >>, << 119860, 119885 >>, << 119912, 119937 >>, << 119964, 119964 >>,
    << 119966, 119967 >>, << 119970, 119970 >>, << 119973, 119974 >>, << 119977, 119980 >>,
    << 119982, 119989 >>, << 120016, 120041 >>, << 120068, 120069 >>, << 120071, 120074 >>,
    << 120077, 120084 >>, << 120086, 120092 >>, << 120120, 120121 >>, << 120123, 120126 >>,
    << 120128, 120132 >>, << 120134, 120134 >>, << 120138, 120144 >>, << 120172, 120197 >>,
    << 120224, 120249 >>, << 120276, 120301 >>, << 120328, 120353 >>, << 120380, 120405 >>,
    << 120432, 120457 >>, << 120488, 120512 >>, << 120546, 120570 >>, << 120604, 120628 >>,
    << 120662, 120686 >>, << 120720, 120744 >>, << 120778, 120778 >>, << 125184, 125217 >>,
    << 127280, 127305 >>, << 127312, 127337 >>, << 127344, 127369 >>
  }

\* The code point ranges the regex class \w matches (str patterns).
WordRanges ==
  {
    << 48, 57 >>, << 65, 90 >>, << 95, 95 >>, << 97, 122 >>,
    << 170, 170 >>, << 178, 179 >>, << 181, 181 >>, << 185, 186 >>,
    << 188, 190 >>, << 192, 214 >>, << 216, 246 >>, << 248, 705 >>,
    << 710, 721 >>, << 736, 740 >>, << 748, 748 >>, << 750, 750 >>,
    << 880, 884 >>, << 886, 887 >>, << 890, 893 >>, << 895, 895 >>,
    << 902, 902 >>, << 904, 906 >>, << 908, 908 >>, << 910, 929 >>,
    << 931, 1013 >>, << 1015, 1153 >>, << 1162, 1327 >>, << 1329, 1366 >>,
    << 1369, 1369 >>, << 1376, 1416 >>, << 1488, 1514 >>, << 1519, 1522 >>,
    << 1568, 1610 >>, << 1632, 1641 >>, << 1646, 1647 >>, << 1649, 1747 >>,
    << 1749, 1749 >>, << 1765, 1766 >>, << 1774, 1788 >>, << 1791, 1791 >>,
    << 1808, 1808 >>, << 1810, 1839 >>, << 1869, 1957 >>, << 1969, 1969 >>,
    << 1984, 2026 >>, << 2036, 2037 >>, << 2042, 2042 >>, << 2048, 2069 >>,
    << 2074, 2074 >>, << 2084, 2084 >>, << 2088, 2088 >>, << 2112, 2136 >>,
    << 2144, 2154 >>, << 2160, 2183 >>, << 2185, 2190 >>, << 2208, 2249 >>,
    << 2308, 2361 >>, << 2365, 2365 >>, << 2384, 2384 >>, << 2392, 2401 >>,
    << 2406, 2415 >>, << 2417, 2432 >>, << 2437, 2444 >>, << 2447, 2448 >>,
    << 2451, 2472 >>, << 2474, 2480 >>, << 2482, 2482 >>, << 2486, 2489 >>,
    << 2493, 2493 >>, << 2510, 2510 >>, << 2524, 2525 >>, << 2527, 2529 >>,
    << 2534, 2545 >>, << 2548, 2553 >>, << 2556, 2556 >>, << 2565, 2570 >>,
    << 2575, 2576 >>, << 2579, 2600 >>, << 2602, 2608 >>, << 2610, 2611 >>,
    << 2613, 2614 >>, << 2616, 2617 >>, << 2649, 2652 >>, << 2654, 2654 >>,
    << 2662, 2671 >>, << 2674, 2676 >>, << 2693, 2701 >>, << 2703, 2705 >>,
    << 2707, 2728 >>, << 2730, 2736 >>, << 2738, 2739 >>, << 2741, 2745 >>,
    << 2749, 2749 >>, << 2768, 2768 >>, << 2784, 2785 >>, << 2790, 2799 >>,
    << 2809, 2809 >>, << 2821, 2828 >>, << 2831, 2832 >>, << 2835, 2856 >>,
    << 2858, 2864 >>, << 2866, 2867 >>, << 2869, 2873 >>, << 2877, 2877 >>,
    << 2908, 2909 >>, << 2911, 2913 >>, << 2918, 2927 >>, << 2929, 2935 >>,
    << 2947, 2947 >>, << 2949, 2954 >>, << 2958, 2960 >>, << 2962, 2965 >>,
    << 2969, 2970 >>, << 2972, 2972 >>, << 2974, 2975 >>, << 2979, 2980 >>,
    << 2984, 2986 >>, << 2990, 3001 >>, << 3024, 3024 >>, << 3046, 3058 >>,
    << 3077, 3084 >>, << 3086, 3088 >>, << 3090, 3112 >>, << 3114, 3129 >>,
    << 3133, 3133 >>, << 3160, 3162 >>, << 3165, 3165 >>, << 3168, 3169 >>,
    << 3174, 3183 >>, << 3192, 3198 >>, << 3200, 3200 >>, << 3205, 3212 >>,
    << 3214, 3216 >>, << 3218, 3240 >>, << 3242, 3251 >>, << 3253, 3257 >>,
    << 3261, 3261 >>, << 3293, 3294 >>, << 3296, 3297 >>, << 3302, 3311 >>,
    << 3313, 3314 >>, << 3332, 3340 >>, << 3342, 3344 >>, << 3346, 3386 >>,
    << 3389, 3389 >>, << 3406, 3406 >>, << 3412, 3414 >>, << 3416, 3425 >>,
    << 3430, 3448 >>, << 3450, 3455 >>, << 3461, 3478 >>, << 3482, 3505 >>,
    << 3507, 3515 >>, << 3517, 3517 >>, << 3520, 3526 >>, << 3558, 3567 >>,
    << 3585, 3632 >>, << 3634, 3635 >>, << 3648, 3654 >>, << 3664, 3673 >>,
    << 3713, 3714 >>, << 3716, 3716 >>, << 3718, 3722 >>, << 3724, 3747 >>,
    << 3749, 3749 >>, << 3751, 3760 >>, << 3762, 3763 >>, << 3773, 3773 >>,
    << 3776, 3780 >>, << 3782, 3782 >>, << 3792, 3801 >>, << 3804, 3807 >>,
    << 3840, 3840 >>, << 3872, 3891 >>, << 3904, 3911 >>, << 3913, 3948 >>,
    << 3976, 3980 >>, << 4096, 4138 >>, << 4159, 4169 >>, << 4176, 4181 >>,
    << 4186, 4189 >>, << 4193, 4193 >>, << 4197, 4198 >>, << 4206, 4208 >>,
    << 4213, 4225 >>, << 4238, 4238 >>, << 4240, 4249 >>, << 4256, 4293 >>,
    << 4295, 4295 >>, << 4301, 4301 >>, << 4304, 4346 >>, << 4348, 4680 >>,
    << 4682, 4685 >>, << 4688, 4694 >>, << 4696, 4696 >>, << 4698, 4701 >>,
    << 4704, 4744 >>, << 4746, 4749 >>, << 4752, 4784 >>, << 4786, 4789 >>,
    << 4792, 4798 >>, << 4800, 4800 >>, << 4802, 4805 >>, << 4808, 4822 >>,
    << 4824, 4880 >>, << 4882, 4885 >>, << 4888, 4954 >>, << 4969, 4988 >>,
    << 4992, 5007 >>, << 5024, 5109 >>, << 5112, 5117 >>, << 5121, 5740 >>,
    << 5743, 5759 >>, << 5761, 5786 >>, << 5792, 5866 >>, << 5870, 5880 >>,
    << 5888, 5905 >>, << 5919, 5937 >>, << 5952, 5969 >>, << 5984, 5996 >>,
    << 5998, 6000 >>, << 6016, 6067 >>, << 6103, 6103 >>, << 6108, 6108 >>,
    << 6112, 6121 >>, << 6128, 6137 >>, << 6160, 6169 >>, << 6176, 6264 >>,
    << 6272, 6276 >>, << 6279, 6312 >>, << 6314, 6314 >>, << 6320, 6389 >>,
    << 6400, 6430 >>, << 6470, 6509 >>, << 6512, 6516 >>, << 6528, 6571 >>,
    << 6576, 6601 >>, << 6608, 6618 >>, << 6656, 6678 >>, << 6688, 6740 >>,
    << 6784, 6793 >>, << 6800, 6809 >>, << 6823, 6823 >>, << 6917, 6963 >>,
    << 6981, 6988 >>, << 6992, 7001 >>, << 7043, 7072 >>, << 7086, 7141 >>,
    << 7168, 7203 >>, << 7232, 7241 >>, << 7245, 7293 >>, << 7296, 7304 >>,
    << 7312, 7354 >>, << 7357, 7359 >>, << 7401, 7404 >>, << 7406, 7411 >>,
    << 7413, 7414 >>, << 7418, 7418 >>, << 7424, 7615 >>, << 7680, 7957 >>,
    << 7960, 7965 >>, << 7968, 8005 >>, << 8008, 8013 >>, << 8016, 8023 >>,
    << 8025, 8025 >>, << 8027, 8027 >>, << 8029, 8029 >>, << 8031, 8061 >>,
    << 8064, 8116 >>, << 8118, 8124 >>, << 8126, 8126 >>, << 8130, 8132 >>,
    << 8134, 8140 >>, << 8144, 8147 >>, << 8150, 8155 >>, << 8160, 8172 >>,
    << 8178, 8180 >>, << 8182, 8188 >>, << 8304, 8305 >>, << 8308, 8313 >>,
    << 8319, 8329 >>, << 8336, 8348 >>, << 8450, 8450 >>, << 8455, 8455 >>,
    << 8458, 8467 >>, << 8469, 8469 >>, << 8473, 8477 >>, << 8484, 8484 >>,
    << 8486, 8486 >>, << 8488, 8488 >>, << 8490, 8493 >>, << 8495, 8505 >>,
    << 8508, 8511 >>, << 8517, 8521 >>, << 8526, 8526 >>, << 8528, 8585 >>,
    << 9312, 9371 >>, << 9450, 9471 >>, << 10102, 10131 >>, << 11264, 11492 >>,
    << 11499, 11502 >>, << 11506, 11507 >>, << 11517, 11517 >>, << 11520, 11557 >>,
    << 11559, 11559 >>, << 11565, 11565 >>, << 11568, 11623 >>, << 11631, 11631 >>,
    << 11648, 11670 >>, << 11680, 11686 >>, << 11688, 11694 >>, << 11696, 11702 >>,
    << 11704, 11710 >>, << 11712, 11718 >>, << 11720, 11726 >>, << 11728, 11734 >>,
    << 11736, 11742 >>, << 11823, 11823 >>, << 12293, 12295 >>, << 12321, 12329 >>,
    << 12337, 12341 >>, << 12344, 12348 >>, << 12353, 12438 >>, << 12445, 12447 >>,
    << 12449, 12538 >>, << 12540, 12543 >>, << 12549, 12591 >>, << 12593, 12686 >>,
    << 12690, 12693 >>, << 12704, 12735 >>, << 12784, 12799 >>, << 12832, 12841 >>,
    << 12872, 12879 >>, << 12881, 12895 >>, << 12928, 12937 >>, << 12977, 12991 >>,
    << 13312, 19903 >>, << 19968, 42124 >>, << 42192, 42237 >>, << 42240, 42508 >>,
    << 42512, 42539 >>, << 42560, 42606 >>, << 42623, 42653 >>, << 42656, 42735 >>,
    << 42775, 42783 >>, << 42786, 42888 >>, << 42891, 42954 >>, << 42960, 42961 >>,
    << 42963, 42963 >>, << 42965, 42969 >>, << 42994, 43009 >>, << 43011, 43013 >>,
    << 43015, 43018 >>, << 43020, 43042 >>, << 43056, 43061 >>, << 43072, 43123 >>,
    << 43138, 43187 >>, << 43216, 43225 >>, << 43250, 43255 >>, << 43259, 43259 >>,
    << 43261, 43262 >>, << 43264, 43301 >>, << 43312, 43334 >>, << 43360, 43388 >>,
    << 43396, 43442 >>, << 43471, 43481 >>, << 43488, 43492 >>, << 43494, 43518 >>,
    << 43520, 43560 >>, << 43584, 43586 >>, << 43588, 43595 >>, << 43600, 43609 >>,
    << 43616, 43638 >>, << 43642, 43642 >>, << 43646, 43695 >>, << 43697, 43697 >>,
    << 43701, 43702 >>, << 43705, 43709 >>, << 43712, 43712 >>, << 43714, 43714 >>,
    << 43739, 43741 >>, << 43744, 43754 >>, << 43762, 43764 >>, << 43777, 43782 >>,
    << 43785, 43790 >>, << 43793, 43798 >>, << 43808, 43814 >>, << 43816, 43822 >>,
    << 43824, 43866 >>, << 43868, 43881 >>, << 43888, 44002 >>, << 44016, 44025 >>,
    << 44032, 55203 >>, << 55216, 55238 >>, << 55243, 55291 >>, << 63744, 64109 >>,
    << 64112, 64217 >>, << 64256, 64262 >>, << 64275, 64279 >>, << 64285, 64285 >>,
    << 64287, 64296 >>, << 64298, 64310 >>, << 64312, 64316 >>, << 64318, 64318 >>,
    << 64320, 64321 >>, << 64323, 64324 >>, << 64326, 64433 >>, << 64467, 64829 >>,
    << 64848, 64911 >>, << 64914, 64967 >>, << 65008, 65019 >>, << 65136, 65140 >>,
    << 65142, 65276 >>, << 65296, 65305 >>, << 65313, 65338 >>, << 65345, 65370 >>,
    << 65382, 65470 >>, << 65474, 65479 >>, << 65482, 65487 >>, << 65490, 65495 >>,
    << 65498, 65500 >>, << 65536, 65547 >>, << 65549, 65574 >>, << 65576, 65594 >>,
    << 65596, 65597 >>, << 65599, 65613 >>, << 65616, 65629 >>, << 65664, 65786 >>,
    << 65799, 65843 >>, << 65856, 65912 >>, << 65930, 65931 >>, << 66176, 66204 >>,
    << 66208, 66256 >>, << 66273, 66299 >>, << 66304, 66339 >>, << 66349, 66378 >>,
    << 66384, 66421 >>, << 66432, 66461 >>, << 66464, 66499 >>, << 66504, 66511 >>,
    << 66513, 66517 >>, << 66560, 66717 >>, << 66720, 66729 >>, << 66736, 66771 >>,
    << 66776, 66811 >>, << 66816, 66855 >>, << 66864, 66915 >>, << 66928, 66938 >>,
    << 66940, 66954 >>, << 66956, 66962 >>, << 66964, 66965 >>, << 66967, 66977 >>,
    << 66979, 66993 >>, << 66995, 67001 >>, << 67003, 67004 >>, << 67072, 67382 >>,
    << 67392, 67413 >>, << 67424, 67431 >>, << 67456, 67461 >>, << 67463, 67504 >>,
    << 67506, 67514 >>, << 67584, 67589 >>, << 67592, 67592 >>, << 67594, 67637 >>,
    << 67639, 67640 >>, << 67644, 67644 >>, << 67647, 67669 >>, << 67672, 67702 >>,
    << 67705, 67742 >>, << 67751, 67759 >>, << 67808, 67826 >>, << 67828, 67829 >>,
    << 67835, 67867 >>, << 67872, 67897 >>, << 67968, 68023 >>, << 68028, 68047 >>,
    << 68050, 68096 >>, << 68112, 68115 >>, << 68117, 68119 >>, << 68121, 68149 >>,
    << 68160, 68168 >>, << 68192, 68222 >>, << 68224, 68255 >>, << 68288, 68295 >>,
    << 68297, 68324 >>, << 68331, 68335 >>, << 68352, 68405 >>, << 68416, 68437 >>,
    << 68440, 68466 >>, << 68472, 68497 >>, << 68521, 68527 >>, << 68608, 68680 >>,
    << 68736, 68786 >>, << 68800, 68850 >>, << 68858, 68899 >>, << 68912, 68921 >>,
    << 69216, 69246 >>, << 69248, 69289 >>, << 69296, 69297 >>, << 69376, 69415 >>,
    << 69424, 69445 >>, << 69457, 69460 >>, << 69488, 69505 >>, << 69552, 69579 >>,
    << 69600, 69622 >>, << 69635, 69687 >>, << 69714, 69743 >>, << 69745, 69746 >>,
    << 69749, 69749 >>, << 69763, 69807 >>, << 69840, 69864 >>, << 69872, 69881 >>,
    << 69891, 69926 >>, << 69942, 69951 >>, << 69956, 69956 >>, << 69959, 69959 >>,
    << 69968, 70002 >>, << 70006, 70006 >>, << 70019, 70066 >>, << 70081, 70084 >>,
    << 70096, 70106 >>, << 70108, 70108 >>, << 70113, 70132 >>, << 70144, 70161 >>,
    << 70163, 70187 >>, << 70272, 70278 >>, << 70280, 70280 >>, << 70282, 70285 >>,
    << 70287, 70301 >>, << 70303, 70312 >>, << 70320, 70366 >>, << 70384, 70393 >>,
    << 70405, 70412 >>, << 70415, 70416 >>, << 70419, 70440 >>, << 70442, 70448 >>,
    << 70450, 70451 >>, << 70453, 70457 >>, << 70461, 70461 >>, << 70480, 70480 >>,
    << 70493, 70497 >>, << 70656, 70708 >>, << 70727, 70730 >>, << 70736, 70745 >>,
    << 70751, 70753 >>, << 70784, 70831 >>, << 70852, 70853 >>, << 70855, 70855 >>,
    << 70864, 70873 >>, << 71040, 71086 >>, << 71128, 71131 >>, << 71168, 71215 >>,
    << 71236, 71236 >>, << 71248, 71257 >>, << 71296, 71338 >>, << 71352, 71352 >>,
    << 71360, 71369 >>, << 71424, 71450 >>, << 71472, 71483 >>, << 71488, 71494 >>,
    << 71680, 71723 >>, << 71840, 71922 >>, << 71935, 71942 >>, << 71945, 71945 >>,
    << 71948, 71955 >>, << 71957, 71958 >>, << 71960, 71983 >>, << 71999, 71999 >>,
    << 72001, 72001 >>, << 72016, 72025 >>, << 72096, 72103 >>, << 72106, 72144 >>,
    << 72161, 72161 >>, << 72163, 72163 >>, << 72192, 72192 >>, << 72203, 72242 >>,
    << 72250, 72250 >>, << 72272, 72272 >>, << 72284, 72329 >>, << 72349, 72349 >>,
    << 72368, 72440 >>, << 72704, 72712 >>, << 72714, 72750 >>, << 72768, 72768 >>,
    << 72784, 72812 >>, << 72818, 72847 >>, << 72960, 72966 >>, << 72968, 72969 >>,
    << 72971, 73008 >>, << 73030, 73030 >>, << 73040, 73049 >>, << 73056, 73061 >>,
    << 73063, 73064 >>, << 73066, 73097 >>, << 73112, 73112 >>, << 73120, 73129 >>,
    << 73440, 73458 >>, << 73648, 73648 >>, << 73664, 73684 >>, << 73728, 74649 >>,
    << 74752, 74862 >>, << 74880, 75075 >>, << 77712, 77808 >>, << 77824, 78894 >>,
    << 82944, 83526 >>, << 92160, 92728 >>, << 92736, 92766 >>, << 92768, 92777 >>,
    << 92784, 92862 >>, << 92864, 92873 >>, << 92880, 92909 >>, << 92928, 92975 >>,
    << 92992, 92995 >>, << 93008, 93017 >>, << 93019, 93025 >>, << 93027, 93047 >>,
    << 93053, 93071 >>, << 93760, 93846 >>, << 93952, 94026 >>, << 94032, 94032 >>,
    << 94099, 94111 >>, << 94176, 94177 >>, << 94179, 94179 >>, << 94208, 100343 >>,
    << 100352, 101589 >>, << 101632, 101640 >>, << 110576, 110579 >>, << 110581, 110587 >>,
    << 110589, 110590 >>, << 110592, 110882 >>, << 110928, 110930 >>, << 110948, 110951 >>,
    << 110960, 111355 >>, << 113664, 113770 >>, << 113776, 113788 >>, << 113792, 113800 >>,
    << 113808, 113817 >>, << 119520, 119539 >>, << 119648, 119672 >>, << 119808, 119892 >>,
    << 119894, 119964 >>, << 119966, 119967 >>, << 119970, 119970 >>, << 119973, 119974 >>,
    << 119977, 119980 >>, << 119982, 119993 >>, << 119995, 119995 >>, << 119997, 120003 >>,
    << 120005, 120069 >>, << 120071, 120074 >>, << 120077, 120084 >>, << 120086, 120092 >>,
    << 120094, 120121 >>, << 120123, 120126 >>, << 120128, 120132 >>, << 120134, 120134 >>,
    << 120138, 120144 >>, << 120146, 120485 >>, << 120488, 120512 >>, << 120514, 120538 >>,
    << 120540, 120570 >>, << 120572, 120596 >>, << 120598, 120628 >>, << 120630, 120654 >>,
    << 120656, 120686 >>, << 120688, 120712 >>, << 120714, 120744 >>, << 120746, 120770 >>,
    << 120772, 120779 >>, << 120782, 120831 >>, << 122624, 122654 >>, << 123136, 123180 >>,
    << 123191, 123197 >>, << 123200, 123209 >>, << 123214, 123214 >>, << 123536, 123565 >>,
    << 123584, 123627 >>, << 123632, 123641 >>, << 124896, 124902 >>, << 124904, 124907 >>,
    << 124909, 124910 >>, << 124912, 124926 >>, << 124928, 125124 >>, << 125127, 125135 >>,
    << 125184, 125251 >>, << 125259, 125259 >>, << 125264, 125273 >>, << 126065, 126123 >>,
    << 126125, 126127 >>, << 126129, 126132 >>, << 126209, 126253 >>, << 126255, 126269 >>,
    << 126464, 126467 >>, << 126469, 126495 >>, << 126497, 126498 >>, << 126500, 126500 >>,
    << 126503, 126503 >>, << 126505, 126514 >>, << 126516, 126519 >>, << 126521, 126521 >>,
    << 126523, 126523 >>, << 126530, 126530 >>, << 126535, 126535 >>, << 126537, 126537 >>,
    << 126539, 126539 >>, << 126541, 126543 >>, << 126545, 126546 >>, << 126548, 126548 >>,
    << 126551, 126551 >>, << 126553, 126553 >>, << 126555, 126555 >>, << 126557, 126557 >>,
    << 126559, 126559 >>, << 126561, 126562 >>, << 126564, 126564 >>, << 126567, 126570 >>,
    << 126572, 126578 >>, << 126580, 126583 >>, << 126585, 126588 >>, << 126590, 126590 >>,
    << 126592, 126601 >>, << 126603, 126619 >>, << 126625, 126627 >>, << 126629, 126633 >>,
    << 126635, 126651 >>, << 127232, 127244 >>, << 130032, 130041 >>, << 131072, 173791 >>,
    << 173824, 177976 >>, << 177984, 178205 >>, << 178208, 183969 >>, << 183984, 191456 >>,
    << 194560, 195101 >>, << 196608, 201546 >>
  }

\* The case folding of re.IGNORECASE on str patterns: << first, last, d >>
\* says that each code point c of first..last folds to c + d, and a code
\* point of no run folds to itself.  Two characters match each other under
\* re.IGNORECASE exactly when they fold to the same code point.
CaseFoldRuns ==
  {
    << 65, 90, 32 >>, << 181, 181, 775 >>, << 192, 214, 32 >>,
    << 216, 222, 32 >>, << 256, 256, 1 >>, << 258, 258, 1 >>,
    << 260, 260, 1 >>, << 262, 262, 1 >>, << 264, 264, 1 >>,
    << 266, 266, 1 >>, << 268, 268, 1 >>, << 270, 270, 1 >>,
    << 272, 272, 1 >>, << 274, 274, 1 >>, << 276, 276, 1 >>,
    << 278, 278, 1 >>, << 280, 280, 1 >>, << 282, 282, 1 >>,
    << 284, 284, 1 >>, << 286, 286, 1 >>, << 288, 288, 1 >>,
    << 290, 290, 1 >>, << 292, 292, 1 >>, << 294, 294, 1 >>,
    << 296, 296, 1 >>, << 298, 298, 1 >>, << 300, 300, 1 >>,
    << 302, 302, 1 >>, << 304, 304, -199 >>, << 305, 305, -200 >>,
    << 306, 306, 1 >>, << 308, 308, 1 >>, << 310, 310, 1 >>,
    << 313, 313, 1 >>, << 315, 315, 1 >>, << 317, 317, 1 >>,
    << 319, 319, 1 >>, << 321, 321, 1 >>, << 323, 323, 1 >>,
    << 325, 325, 1 >>, << 327, 327, 1 >>, << 330, 330, 1 >>,
    << 332, 332, 1 >>, << 334, 334, 1 >>, << 336, 336, 1 >>,
    << 338, 338, 1 >>, << 340, 340, 1 >>, << 342, 342, 1 >>,
    << 344, 344, 1 >>, << 346, 346, 1 >>, << 348, 348, 1 >>,
    << 350, 350, 1 >>, << 352, 352, 1 >>, << 354, 354, 1 >>,
    << 356, 356, 1 >>, << 358, 358, 1 >>, << 360, 360, 1 >>,
    << 362, 362, 1 >>, << 364, 364, 1 >>, << 366, 366, 1 >>,
    << 368, 368, 1 >>, << 370, 370, 1 >>, << 372, 372, 1 >>,
    << 374, 374, 1 >>, << 376, 376, -121 >>, << 377, 377, 1 >>,
    << 379, 379, 1 >>, << 381, 381, 1 >>, << 383, 383, -268 >>,
    << 385, 385, 210 >>, << 386, 386, 1 >>, << 388, 388, 1 >>,
    << 390, 390, 206 >>, << 391, 391, 1 >>, << 393, 394, 205 >>,
    << 395, 395, 1 >>, << 398, 398, 79 >>, << 399, 399, 202 >>,
    << 400, 400, 203 >>, << 401, 401, 1 >>, << 403, 403, 205 >>,
    << 404, 404, 207 >>, << 406, 406, 211 >>, << 407, 407, 209 >>,
    << 408, 408, 1 >>, << 412, 412, 211 >>, << 413, 413, 213 >>,
    << 415, 415, 214 >>, << 416, 416, 1 >>, << 418, 418, 1 >>,
    << 420, 420, 1 >>, << 422, 422, 218 >>, << 423, 423, 1 >>,
    << 425, 425, 218 >>, << 428, 428, 1 >>, << 430, 430, 218 >>,
    << 431, 431, 1 >>, << 433, 434, 217 >>, << 435, 435, 1 >>,
    << 437, 437, 1 >>, << 439, 439, 219 >>, << 440, 440, 1 >>,
    << 444, 444, 1 >>, << 452, 452, 2 >>, << 453, 453, 1 >>,
    << 455, 455, 2 >>, << 456, 456, 1 >>, << 458, 458, 2 >>,
    << 459, 459, 1 >>, << 461, 461, 1 >>, << 463, 463, 1 >>,
    << 465, 465, 1 >>, << 467, 467, 1 >>, << 469, 469, 1 >>,
    << 471, 471, 1 >>, << 473, 473, 1 >>, << 475, 475, 1 >>,
    << 478, 478, 1 >>, << 480, 480, 1 >>, << 482, 482, 1 >>,
    << 484, 484, 1 >>, << 486, 486, 1 >>, << 488, 488, 1 >>,
    << 490, 490, 1 >>, << 492, 492, 1 >>, << 494, 494, 1 >>,
    << 497, 497, 2 >>, << 498, 498, 1 >>, << 500, 500, 1 >>,
    << 502, 502, -97 >>, << 503, 503, -56 >>, << 504, 504, 1 >>,
    << 506, 506, 1 >>, << 508, 508, 1 >>, << 510, 510, 1 >>,
    << 512, 512, 1 >>, << 514, 514, 1 >>, << 516, 516, 1 >>,
    << 518, 518, 1 >>, << 520, 520, 1 >>, << 522, 522, 1 >>,
    << 524, 524, 1 >>, << 526, 526, 1 >>, << 528, 528, 1 >>,
    << 530, 530, 1 >>, << 532, 532, 1 >>, << 534, 534, 1 >>,
    << 536, 536, 1 >>, << 538, 538, 1 >>, << 540, 540, 1 >>,
    << 542, 542, 1 >>, << 544, 544, -130 >>, << 546, 546, 1 >>,
    << 548, 548, 1 >>, << 550, 550, 1 >>, << 552, 552, 1 >>,
    << 554, 554, 1 >>, << 556, 556, 1 >>, << 558, 558, 1 >>,
    << 560, 560, 1 >>, << 562, 562, 1 >>, << 570, 570, 10795 >>,
    << 571, 571, 1 >>, << 573, 573, -163 >>, << 574, 574, 10792 >>,
    << 577, 577, 1 >>, << 579, 579, -195 >>, << 580, 580, 69 >>,
    << 581, 581, 71 >>, << 582, 582, 1 >>, << 584, 584, 1 >>,
    << 586, 586, 1 >>, << 588, 588, 1 >>, << 590, 590, 1 >>,
    << 837, 837, 116 >>, << 880, 880, 1 >>, << 882, 882, 1 >>,
    << 886, 886, 1 >>, << 895, 895, 116 >>, << 902, 902, 38 >>,
    << 904, 906, 37 >>, << 908, 908, 64 >>, << 910, 911, 63 >>,
    << 913, 929, 32 >>, << 931, 939, 32 >>, << 962, 962, 1 >>,
    << 975, 975, 8 >>, << 976, 976, -30 >>, << 977, 977, -25 >>,
    << 981, 981, -15 >>, << 982, 982, -22 >>, << 984, 984, 1 >>,
    << 986, 986, 1 >>, << 988, 988, 1 >>, << 990, 990, 1 >>,
    << 992, 992, 1 >>, << 994, 994, 1 >>, << 996, 996, 1 >>,
    << 998, 998, 1 >>, << 1000, 1000, 1 >>, << 1002, 1002, 1 >>,
    << 1004, 1004, 1 >>, << 1006, 1006, 1 >>, << 1008, 1008, -54 >>,
    << 1009, 1009, -48 >>, << 1012, 1012, -60 >>, << 1013, 1013, -64 >>,
    << 1015, 1015, 1 >>, << 1017, 1017, -7 >>, << 1018, 1018, 1 >>,
    << 1021, 1023, -130 >>, << 1024, 1039, 80 >>, << 1040, 1071, 32 >>,
    << 1120, 1120, 1 >>, << 1122, 1122, 1 >>, << 1124, 1124, 1 >>,
    << 1126, 1126, 1 >>, << 1128, 1128, 1 >>, << 1130, 1130, 1 >>,
    << 1132, 1132, 1 >>, << 1134, 1134, 1 >>, << 1136, 1136, 1 >>,
    << 1138, 1138, 1 >>, << 1140, 1140, 1 >>, << 1142, 1142, 1 >>,
    << 1144, 1144, 1 >>, << 1146, 1146, 1 >>, << 1148, 1148, 1 >>,
    << 1150, 1150, 1 >>, << 1152, 1152, 1 >>, << 1162, 1162, 1 >>,
    << 1164, 1164, 1 >>, << 1166, 1166, 1 >>, << 1168, 1168, 1 >>,
    << 1170, 1170, 1 >>, << 1172, 1172, 1 >>, << 1174, 1174, 1 >>,
    << 1176, 1176, 1 >>, << 1178, 1178, 1 >>, << 1180, 1180, 1 >>,
    << 1182, 1182, 1 >>, << 1184, 1184, 1 >>, << 1186, 1186, 1 >>,
    << 1188, 1188, 1 >>, << 1190, 1190, 1 >>, << 1192, 1192, 1 >>,
    << 1194, 1194, 1 >>, << 1196, 1196, 1 >>, << 1198, 1198, 1 >>,
    << 1200, 1200, 1 >>, << 1202, 1202, 1 >>, << 1204, 1204, 1 >>,
    << 1206, 1206, 1 >>, << 1208, 1208, 1 >>, << 1210, 1210, 1 >>,
    << 1212, 1212, 1 >>, << 1214, 1214, 1 >>, << 1216, 1216, 15 >>,
    << 1217, 1217, 1 >>, << 1219, 1219, 1 >>, << 1221, 1221, 1 >>,
    << 1223, 1223, 1 >>, << 1225, 1225, 1 >>, << 1227, 1227, 1 >>,
    << 1229, 1229, 1 >>, << 1232, 1232, 1 >>, << 1234, 1234, 1 >>,
    << 1236, 1236, 1 >>, << 1238, 1238, 1 >>, << 1240, 1240, 1 >>,
    << 1242, 1242, 1 >>, << 1244, 1244, 1 >>, << 1246, 1246, 1 >>,
    << 1248, 1248, 1 >>, << 1250, 1250, 1 >>, << 1252, 1252, 1 >>,
    << 1254, 1254, 1 >>, << 1256, 1256, 1 >>, << 1258, 1258, 1 >>,
    << 1260, 1260, 1 >>, << 1262, 1262, 1 >>, << 1264, 1264, 1 >>,
    << 1266, 1266, 1 >>, << 1268, 1268, 1 >>, << 1270, 1270, 1 >>,
    << 1272, 1272, 1 >>, << 1274, 1274, 1 >>, << 1276, 1276, 1 >>,
    << 1278, 1278, 1 >>, << 1280, 1280, 1 >>, << 1282, 1282, 1 >>,
    << 1284, 1284, 1 >>, << 1286, 1286, 1 >>, << 1288, 1288, 1 >>,
    << 1290, 1290, 1 >>, << 1292, 1292, 1 >>, << 1294, 1294, 1 >>,
    << 1296, 1296, 1 >>, << 1298, 1298, 1 >>, << 1300, 1300, 1 >>,
    << 1302, 1302, 1 >>, << 1304, 1304, 1 >>, << 1306, 1306, 1 >>,
    << 1308, 1308, 1 >>, << 1310, 1310, 1 >>, << 1312, 1312, 1 >>,
    << 1314, 1314, 1 >>, << 1316, 1316, 1 >>, << 1318, 1318, 1 >>,
    << 1320, 1320, 1 >>, << 1322, 1322, 1 >>, << 1324, 1324, 1 >>,
    << 1326, 1326, 1 >>, << 1329, 1366, 48 >>, << 4256, 4293, 7264 >>,
    << 4295, 4295, 7264 >>, << 4301, 4301, 7264 >>, << 5024, 5103, 38864 >>,
    << 5104, 5109, 8 >>, << 7296, 7296, -6222 >>, << 7297, 7297, -6221 >>,
    << 7298, 7298, -6212 >>, << 7299, 7300, -6210 >>, << 7301, 7301, -6211 >>,
    << 7302, 7302, -6204 >>, << 7303, 7303, -6180 >>, << 7304, 7304, 35267 >>,
    << 7312, 7354, -3008 >>, << 7357, 7359, -3008 >>, << 7680, 7680, 1 >>,
    << 7682, 7682, 1 >>, << 7684, 7684, 1 >>, << 7686, 7686, 1 >>,
    << 7688, 7688, 1 >>, << 7690, 7690, 1 >>, << 7692, 7692, 1 >>,
    << 7694, 7694, 1 >>, << 7696, 7696, 1 >>, << 7698, 7698, 1 >>,
    << 7700, 7700, 1 >>, << 7702, 7702, 1 >>, << 7704, 7704, 1 >>,
    << 7706, 7706, 1 >>, << 7708, 7708, 1 >>, << 7710, 7710, 1 >>,
    << 7712, 7712, 1 >>, << 7714, 7714, 1 >>, << 7716, 7716, 1 >>,
    << 7718, 7718, 1 >>, << 7720, 7720, 1 >>, << 7722, 7722, 1 >>,
    << 7724, 7724, 1 >>, << 7726, 7726, 1 >>, << 7728, 7728, 1 >>,
    << 7730, 7730, 1 >>, << 7732, 7732, 1 >>, << 7734, 7734, 1 >>,
    << 7736, 7736, 1 >>, << 7738, 7738, 1 >>, << 7740, 7740, 1 >>,
    << 7742, 7742, 1 >>, << 7744, 7744, 1 >>, << 7746, 7746, 1 >>,
    << 7748, 7748, 1 >>, << 7750, 7750, 1 >>, << 7752, 7752, 1 >>,
    << 7754, 7754, 1 >>, << 7756, 7756, 1 >>, << 7758, 7758, 1 >>,
    << 7760, 7760, 1 >>, << 7762, 7762, 1 >>, << 7764, 7764, 1 >>,
    << 7766, 7766, 1 >>, << 7768, 7768, 1 >>, << 7770, 7770, 1 >>,
    << 7772, 7772, 1 >>, << 7774, 7774, 1 >>, << 7776, 7776, 1 >>,
    << 7778, 7778, 1 >>, << 7780, 7780, 1 >>, << 7782, 7782, 1 >>,
    << 7784, 7784, 1 >>, << 7786, 7786, 1 >>, << 7788, 7788, 1 >>,
    << 7790, 7790, 1 >>, << 7792, 7792, 1 >>, << 7794, 7794, 1 >>,
    << 7796, 7796, 1 >>, << 7798, 7798, 1 >>, << 7800, 7800, 1 >>,
    << 7802, 7802, 1 >>, << 7804, 7804, 1 >>, << 7806, 7806, 1 >>,
    << 7808, 7808, 1 >>, << 7810, 7810, 1 >>, << 7812, 7812, 1 >>,
    << 7814, 7814, 1 >>, << 7816, 7816, 1 >>, << 7818, 7818, 1 >>,
    << 7820, 7820, 1 >>, << 7822, 7822, 1 >>, << 7824, 7824, 1 >>,
    << 7826, 7826, 1 >>, << 7828, 7828, 1 >>, << 7835, 7835, -58 >>,
    << 7838, 7838, -7615 >>, << 7840, 7840, 1 >>, << 7842, 7842, 1 >>,
    << 7844, 7844, 1 >>, << 7846, 7846, 1 >>, << 7848, 7848, 1 >>,
    << 7850, 7850, 1 >>, << 7852, 7852, 1 >>, << 7854, 7854, 1 >>,
    << 7856, 7856, 1 >>, << 7858, 7858, 1 >>, << 7860, 7860, 1 >>,
    << 7862, 7862, 1 >>, << 7864, 7864, 1 >>, << 7866, 7866, 1 >>,
    << 7868, 7868, 1 >>, << 7870, 7870, 1 >>, << 7872, 7872, 1 >>,
    << 7874, 7874, 1 >>, << 7876, 7876, 1 >>, << 7878, 7878, 1 >>,
    << 7880, 7880, 1 >>, << 7882, 7882, 1 >>, << 7884, 7884, 1 >>,
    << 7886, 7886, 1 >>, << 7888, 7888, 1 >>, << 7890, 7890, 1 >>,
    << 7892, 7892, 1 >>, << 7894, 7894, 1 >>, << 7896, 7896, 1 >>,
    << 7898, 7898, 1 >>, << 7900, 7900, 1 >>, << 7902, 7902, 1 >>,
    << 7904, 7904, 1 >>, << 7906, 7906, 1 >>, << 7908, 7908, 1 >>,
    << 7910, 7910, 1 >>, << 7912, 7912, 1 >>, << 7914, 7914, 1 >>,
    << 7916, 7916, 1 >>, << 7918, 7918, 1 >>, << 7920, 7920, 1 >>,
    << 7922, 7922, 1 >>, << 7924, 7924, 1 >>, << 7926, 7926, 1 >>,
    << 7928, 7928, 1 >>, << 7930, 7930, 1 >>, << 7932, 7932, 1 >>,
    << 7934, 7934, 1 >>, << 7944, 7951, -8 >>, << 7960, 7965, -8 >>,
    << 7976, 7983, -8 >>, << 7992, 7999, -8 >>, << 8008, 8013, -8 >>,
    << 8025, 8025, -8 >>, << 8027, 8027, -8 >>, << 8029, 8029, -8 >>,
    << 8031, 8031, -8 >>, << 8040, 8047, -8 >>, << 8072, 8079, -8 >>,
    << 8088, 8095, -8 >>, << 8104, 8111, -8 >>, << 8120, 8121, -8 >>,
    << 8122, 8123, -74 >>, << 8124, 8124, -9 >>, << 8126, 8126, -7173 >>,
    << 8136, 8139, -86 >>, << 8140, 8140, -9 >>, << 8147, 8147, -7235 >>,
    << 8152, 8153, -8 >>, << 8154, 8155, -100 >>, << 8163, 8163, -7219 >>,
    << 8168, 8169, -8 >>, << 8170, 8171, -112 >>, << 8172, 8172, -7 >>,
    << 8184, 8185, -128 >>, << 8186, 8187, -126 >>, << 8188, 8188, -9 >>,
    << 8486, 8486, -7517 >>, << 8490, 8490, -8383 >>, << 8491, 8491, -8262 >>,
    << 8498, 8498, 28 >>, << 8544, 8559, 16 >>, << 8579, 8579, 1 >>,
    << 9398, 9423, 26 >>, << 11264, 11311, 48 >>, << 11360, 11360, 1 >>,
    << 11362, 11362, -10743 >>, << 11363, 11363, -3814 >>, << 11364, 11364, -10727 >>,
    << 11367, 11367, 1 >>, << 11369, 11369, 1 >>, << 11371, 11371, 1 >>,
    << 11373, 11373, -10780 >>, << 11374, 11374, -10749 >>, << 11375, 11375, -10783 >>,
    << 11376, 11376, -10782 >>, << 11378, 11378, 1 >>, << 11381, 11381, 1 >>,
    << 11390, 11391, -10815 >>, << 11392, 11392, 1 >>, << 11394, 11394, 1 >>,
    << 11396, 11396, 1 >>, << 11398, 11398, 1 >>, << 11400, 11400, 1 >>,
    << 11402, 11402, 1 >>, << 11404, 11404, 1 >>, << 11406, 11406, 1 >>,
    << 11408, 11408, 1 >>, << 11410, 11410, 1 >>, << 11412, 11412, 1 >>,
    << 11414, 11414, 1 >>, << 11416, 11416, 1 >>, << 11418, 11418, 1 >>,
    << 11420, 11420, 1 >>, << 11422, 11422, 1 >>, << 11424, 11424, 1 >>,
    << 11426, 11426, 1 >>, << 11428, 11428, 1 >>, << 11430, 11430, 1 >>,
    << 11432, 11432, 1 >>, << 11434, 11434, 1 >>, << 11436, 11436, 1 >>,
    << 11438, 11438, 1 >>, << 11440, 11440, 1 >>, << 11442, 11442, 1 >>,
    << 11444, 11444, 1 >>, << 11446, 11446, 1 >>, << 11448, 11448, 1 >>,
    << 11450, 11450, 1 >>, << 11452, 11452, 1 >>, << 11454, 11454, 1 >>,
    << 11456, 11456, 1 >>, << 11458, 11458, 1 >>, << 11460, 11460, 1 >>,
    << 11462, 11462, 1 >>, << 11464, 11464, 1 >>, << 11466, 11466, 1 >>,
    << 11468, 11468, 1 >>, << 11470, 11470, 1 >>, << 11472, 11472, 1 >>,
    << 11474, 11474, 1 >>, << 11476, 11476, 1 >>, << 11478, 11478, 1 >>,
    << 11480, 11480, 1 >>, << 11482, 11482, 1 >>, << 11484, 11484, 1 >>,
    << 11486, 11486, 1 >>, << 11488, 11488, 1 >>, << 11490, 11490, 1 >>,
    << 11499, 11499, 1 >>, << 11501, 11501, 1 >>, << 11506, 11506, 1 >>,
    << 42560, 42560, 1 >>, << 42562, 42562, 1 >>, << 42564, 42564, 1 >>,
    << 42566, 42566, 1 >>, << 42568, 42568, 1 >>, << 42570, 42570, 1 >>,
    << 42572, 42572, 1 >>, << 42574, 42574, 1 >>, << 42576, 42576, 1 >>,
    << 42578, 42578, 1 >>, << 42580, 42580, 1 >>, << 42582, 42582, 1 >>,
    << 42584, 42584, 1 >>, << 42586, 42586, 1 >>, << 42588, 42588, 1 >>,
    << 42590, 42590, 1 >>, << 42592, 42592, 1 >>, << 42594, 42594, 1 >>,
    << 42596, 42596, 1 >>, << 42598, 42598, 1 >>, << 42600, 42600, 1 >>,
    << 42602, 42602, 1 >>, << 42604, 42604, 1 >>, << 42624, 42624, 1 >>,
    << 42626, 42626, 1 >>, << 42628, 42628, 1 >>, << 42630, 42630, 1 >>,
    << 42632, 42632, 1 >>, << 42634, 42634, 1 >>, << 42636, 42636, 1 >>,
    << 42638, 42638, 1 >>, << 42640, 42640, 1 >>, << 42642, 42642, 1 >>,
    << 42644, 42644, 1 >>, << 42646, 42646, 1 >>, << 42648, 42648, 1 >>,
    << 42650, 42650, 1 >>, << 42786, 42786, 1 >>, << 42788, 42788, 1 >>,
    << 42790, 42790, 1 >>, << 42792, 42792, 1 >>, << 42794, 42794, 1 >>,
    << 42796, 42796, 1 >>, << 42798, 42798, 1 >>, << 42802, 42802, 1 >>,
    << 42804, 42804, 1 >>, << 42806, 42806, 1 >>, << 42808, 42808, 1 >>,
    << 42810, 42810, 1 >>, << 42812, 42812, 1 >>, << 42814, 42814, 1 >>,
    << 42816, 42816, 1 >>, << 42818, 42818, 1 >>, << 42820, 42820, 1 >>,
    << 42822, 42822, 1 >>, << 42824, 42824, 1 >>, << 42826, 42826, 1 >>,
    << 42828, 42828, 1 >>, << 42830, 42830, 1 >>, << 42832, 42832, 1 >>,
    << 42834, 42834, 1 >>, << 42836, 42836, 1 >>, << 42838, 42838, 1 >>,
    << 42840, 42840, 1 >>, << 42842, 42842, 1 >>, << 42844, 42844, 1 >>,
    << 42846, 42846, 1 >>, << 42848, 42848, 1 >>, << 42850, 42850, 1 >>,
    << 42852, 42852, 1 >>, << 42854, 42854, 1 >>, << 42856, 42856, 1 >>,
    << 42858, 42858, 1 >>, << 42860, 42860, 1 >>, << 42862, 42862, 1 >>,
    << 42873, 42873, 1 >>, << 42875, 42875, 1 >>, << 42877, 42877, -35332 >>,
    << 42878, 42878, 1 >>, << 42880, 42880, 1 >>, << 42882, 42882, 1 >>,
    << 42884, 42884, 1 >>, << 42886, 42886, 1 >>, << 42891, 42891, 1 >>,
    << 42893, 42893, -42280 >>, << 42896, 42896, 1 >>, << 42898, 42898, 1 >>,
    << 42902, 42902, 1 >>, << 42904, 42904, 1 >>, << 42906, 42906, 1 >>,
    << 42908, 42908, 1 >>, << 42910, 42910, 1 >>, << 42912, 42912, 1 >>,
    << 42914, 42914, 1 >>, << 42916, 42916, 1 >>, << 42918, 42918, 1 >>,
    << 42920, 42920, 1 >>, << 42922, 42922, -42308 >>, << 42923, 42923, -42319 >>,
    << 42924, 42924, -42315 >>, << 42925, 42925, -42305 >>, << 42926, 42926, -42308 >>,
    << 42928, 42928, -42258 >>, << 42929, 42929, -42282 >>, << 42930, 42930, -42261 >>,
    << 42931, 42931, 928 >>, << 42932, 42932, 1 >>, << 42934, 42934, 1 >>,
    << 42936, 42936, 1 >>, << 42938, 42938, 1 >>, << 42940, 42940, 1 >>,
    << 42942, 42942, 1 >>, << 42944, 42944, 1 >>, << 42946, 42946, 1 >>,
    << 42948, 42948, -48 >>, << 42949, 42949, -42307 >>, << 42950, 42950, -35384 >>,
    << 42951, 42951, 1 >>, << 42953, 42953, 1 >>, << 42960, 42960, 1 >>,
    << 42966, 42966, 1 >>, << 42968, 42968, 1 >>, << 42997, 42997, 1 >>,
    << 64262, 64262, -1 >>, << 65313, 65338, 32 >>, << 66560, 66599, 40 >>,
    << 66736, 66771, 40 >>, << 66928, 66938, 39 >>, << 66940, 66954, 39 >>,
    << 66956, 66962, 39 >>, << 66964, 66965, 39 >>, << 68736, 68786, 64 >>,
    << 71840, 71871, 32 >>, << 93760, 93791, 32 >>, << 125184, 125217, 34 >>
  }

AlphaChars == CharsOf(AlphaRanges)

UpperChars == CharsOf(UpperRanges)

WordChars == CharsOf(WordRanges)

\* [0-9]
DigitChars == \h30..\h39

\* str.isalpha()
IsAlpha(c) == c \in AlphaChars
\* str.isupper()
IsUpper(c) == c \in UpperChars
\* str.isspace(): what strip removes and \s matches
IsSpace(c) == c \in WhitespaceChars
\* [A-Za-z] without re.IGNORECASE
IsAsciiLetter(c) == c \in (\h41..\h5A) \cup (\h61..\h7A)
\* the regex class \w (str patterns: Unicode alphanumerics and underscore)
IsWord(c) == c \in WordChars

\* The folding of every character that does not fold to itself.
CaseFold ==
  [c \in CharsOf(CaseFoldRuns) |->
     c + (CHOOSE r \in CaseFoldRuns : r[1] <= c /\ c <= r[2])[3]]

\* The character re.IGNORECASE compares in place of c.
LowerChar(c) == IF c \in DOMAIN CaseFold THEN CaseFold[c] ELSE c

LowerText(t) == [k \in 1..Len(t) |-> LowerChar(t[k])]

RECURSIVE LStrip(_)
LStrip(t) ==
  IF t = << >> THEN << >>
  ELSE IF IsSpace(Head(t)) THEN LStrip(Tail(t)) ELSE t

RECURSIVE RStrip(_)
RStrip(t) ==
  IF t = << >> THEN << >>
  ELSE IF IsSpace(t[Len(t)]) THEN RStrip(SubSeq(t, 1, Len(t) - 1)) ELSE t

Strip(t) == RStrip(LStrip(t))

\* `t` with every whitespace character removed.
RemoveWhitespace(t) == SelectSeq(t, LAMBDA c : ~IsSpace(c))

----------------------------------------------------------------------------
(* types.py                                                                *)

BoundingBox(t, l, b, r) == [top |-> t, left |-> l, bottom |-> b, right |-> r]

FontStyle(f, s, b, i) == [font |-> f, size |-> s, bold |-> b, italic |-> i]

Span(t, box, st) == [text |-> t, bbox |-> box, style |-> st]

Block(box, t, st, its) == [bbox |-> box, text |-> t, style |-> st, items |-> its]

\* BoundingBox.__or__
BoxUnion(a, b) ==
  BoundingBox(Min2(a.top, b.top), Min2(a.left, b.left),
              Max2(a.bottom, b.bottom), Max2(a.right, b.right))

\* BoundingBox.center, doubled: (left + right, top + bottom)
Center2(box) == << box.left + box.right, box.top + box.bottom >>

\* The sort key of spans and of Blocks: (bbox.top, bbox.left).
TopLeftKey(x) == << x.bbox.top, x.bbox.left >>

KeyLeq(k1, k2) == k1[1] < k2[1] \/ (k1[1] = k2[1] /\ k1[2] <= k2[2])

RECURSIVE InsertByKey(_, _)
\* `x` put into the sorted list `sorted` after every element whose key is
\* not greater: elements inserted in list order keep that order on ties.
InsertByKey(x, sorted) ==
  IF sorted = << >> THEN <<x>>
  ELSE IF KeyLeq(TopLeftKey(Head(sorted)), TopLeftKey(x))
       THEN <<Head(sorted)>> \o InsertByKey(x, Tail(sorted))
       ELSE <<x>> \o sorted

RECURSIVE SortUnstable(_)
\* A sort by (top, left) that reverses the order of equal keys.
SortUnstable(xs) ==
  IF xs = << >> THEN << >>
  ELSE InsertByKey(Head(xs), SortUnstable(Tail(xs)))

RECURSIVE SortByTopLeft(_)
\* sorted(xs, key=(top, left)) and list.sort(key=(top, left)): stable.
SortByTopLeft(xs) ==
  IF xs = << >> THEN << >>
  ELSE InsertByKey(xs[Len(xs)], SortByTopLeft(SubSeq(xs, 1, Len(xs) - 1)))

----------------------------------------------------------------------------
(* TextClustering.maybe_join_text                                          *)

RusVowels ==
  {
    \h0430, \h0435, \h0451, \h0438, \h043E, \h0443, \h044B, \h044D,
    \h044E, \h044F, \h0410, \h0415, \h0401, \h0418, \h041E, \h0423,
    \h042B, \h042D, \h042E, \h042F
  }

\* ' ', '-', em dash, en dash
JoinNoSpaceEndings == { \h20, \h2D, \h2014, \h2013 }

\* A join without the rule for Cyrillic vowels.
MaybeJoinTextNoVowel(prev_text, next_text0) ==
  IF prev_text = << >> THEN next_text0
  ELSE
    LET next_text == LStrip(next_text0) IN
    IF next_text = << >> THEN prev_text
    ELSE
      LET last_char == prev_text[Len(prev_text)]
          first_char == next_text[1]
      IN
      IF IsAlpha(last_char) /\ IsAlpha(first_char)
      THEN IF IsUpper(first_char) THEN prev_text \o <<\h20>> \o next_text
           ELSE prev_text \o next_text
      ELSE IF last_char \in JoinNoSpaceEndings THEN prev_text \o next_text
           ELSE prev_text \o <<\h20>> \o next_text

\* maybe_join_text(prev_text, next_text) (lines 41-68)
MaybeJoinText(prev_text, next_text0) ==
  IF prev_text = << >> THEN next_text0
  ELSE
    LET next_text == LStrip(next_text0) IN
    IF next_text = << >> THEN prev_text
    ELSE
      LET last_char == prev_text[Len(prev_text)]
          first_char == next_text[1]
      IN
      IF IsAlpha(last_char) /\ IsAlpha(first_char)
      THEN IF IsUpper(first_char) THEN prev_text \o <<\h20>> \o next_text
           ELSE IF last_char \in RusVowels
                THEN prev_text \o <<\h20>> \o next_text
                ELSE prev_text \o next_text
      ELSE IF last_char \in JoinNoSpaceEndings THEN prev_text \o next_text
           ELSE prev_text \o <<\h20>> \o next_text

RECURSIVE JoinTexts(_, _)
\* text_merged = ''; for span in items: text_merged = maybe_join_text(...)
JoinTexts(text_merged, items) ==
  IF items = << >> THEN text_merged
  ELSE JoinTexts(MaybeJoinText(text_merged, Head(items).text), Tail(items))

----------------------------------------------------------------------------
(* TextClustering.merge_short_spans                                        *)

\* re.fullmatch(r'_+', text)
OnlyUnderscores(text) == text # << >> /\ \A k \in 1..Len(text) : text[k] = \h5F

\* re.fullmatch(r'[\u2013\u2014-]+', text)
OnlyDashes(text) ==
  text # << >> /\ \A k \in 1..Len(text) : text[k] \in { \h2013, \h2014, \h2D }

\* The separator of a fusion of `current` into `prev`.
MergeSeparator(prev, current) ==
  IF (OnlyUnderscores(prev.text) /\ OnlyUnderscores(current.text))
     \/ (OnlyDashes(prev.text) /\ OnlyDashes(current.text))
  THEN << >>
  ELSE <<\h20>>

\* A fusion that forgets the fused span's text.
FuseDropText(prev, current) ==
  [prev EXCEPT !.bbox = BoxUnion(prev.bbox, current.bbox)]

\* prev.text = prev.text + sep + current.text; prev.bbox = prev.bbox | current.bbox
Fuse(prev, current) ==
  [prev EXCEPT !.text = prev.text \o MergeSeparator(prev, current) \o current.text,
               !.bbox = BoxUnion(prev.bbox, current.bbox)]

\* An off-by-one test: a span exactly short_span_limit long counts as short.
IsShortInclusive(span, short_span_limit) == Len(span.text) <= short_span_limit

\* len(current.text) < short_span_limit
IsShort(span, short_span_limit) == Len(span.text) < short_span_limit

RECURSIVE MergeLoop(_, _, _, _)
\* The loop of merge_short_spans from index i on, `merged` built so far.
MergeLoop(items, i, merged, short_span_limit) ==
  IF i > Len(items) THEN merged
  ELSE
    LET current == items[i]
        prev == merged[Len(merged)]
    IN
    IF IsShort(current, short_span_limit)
    THEN MergeLoop(items, i + 1,
                   [merged EXCEPT ![Len(merged)] = Fuse(prev, current)],
                   short_span_limit)
    ELSE MergeLoop(items, i + 1, Append(merged, current), short_span_limit)

MergeShortSpans(items, short_span_limit) ==
  IF items = << >> THEN << >>
  ELSE MergeLoop(items, 2, <<items[1]>>, short_span_limit)

----------------------------------------------------------------------------
(* cluster_spans_bfs: the adjacency graph (lines 239-264)                  *)

\* euclid_dist(center_i, center_j) < distance_threshold, on doubled centers:
\* sqrt(dx^2 + dy^2) < d  iff  d > 0 and dx2^2 + dy2^2 < (2 d)^2
CentersCloserThan(box_i, box_j, distance_threshold) ==
  LET ci == Center2(box_i)
      cj == Center2(box_j)
      dx == ci[1] - cj[1]
      dy == ci[2] - cj[2]
  IN distance_threshold > 0
     /\ dx * dx + dy * dy < 4 * distance_threshold * distance_threshold

\* abs(yi_mid - yj_mid) < distance_vertical and
\* (abs(x1i - x0j) < overlap_threshold or abs(x1j - x0i) < overlap_threshold)
SameLineClose(box_i, box_j, distance_vertical, overlap_threshold) ==
  /\ Abs((box_i.top + box_i.bottom) - (box_j.top + box_j.bottom))
       < 2 * distance_vertical
  /\ \/ Abs(box_i.right - box_j.left) < overlap_threshold
     \/ Abs(box_j.right - box_i.left) < overlap_threshold

\* An adjacency test with the distance comparison inverted.
IsSameBlockFar(box_i, box_j, p) ==
  \/ ~CentersCloserThan(box_i, box_j, p.distance_threshold)
  \/ SameLineClose(box_i, box_j, p.distance_vertical, p.overlap_threshold)

\* is_same_block for the pair (i, j), i < j
IsSameBlock(box_i, box_j, p) ==
  \/ CentersCloserThan(box_i, box_j, p.distance_threshold)
  \/ SameLineClose(box_i, box_j, p.distance_vertical, p.overlap_threshold)

RECURSIVE AscendingSeq(_)
\* The members of a set of integers in ascending order.
AscendingSeq(S) ==
  IF S = {} THEN << >>
  ELSE LET m == CHOOSE x \in S : \A y \in S : x <= y
       IN <<m>> \o AscendingSeq(S \ {m})

\* Adjacency lists that record an edge at its lower end only.
BuildAdjacencyOneWay(sp, p) ==
  [k \in 1..Len(sp) |->
     AscendingSeq({ j \in 1..Len(sp) : k < j /\ IsSameBlock(sp[k].bbox, sp[j].bbox, p) })]

\* The adjacency lists the double loop builds: adjacency[k] receives first
\* every i < k (while the outer loop is at i), then every j > k, so each
\* list is ascending.
BuildAdjacency(sp, p) ==
  [k \in 1..Len(sp) |->
     AscendingSeq({ j \in 1..Len(sp) :
        \/ (j < k /\ IsSameBlock(sp[j].bbox, sp[k].bbox, p))
        \/ (k < j /\ IsSameBlock(sp[k].bbox, sp[j].bbox, p)) })]

----------------------------------------------------------------------------
(* cluster_spans_bfs: the traversal (lines 266-284)                        *)

RECURSIVE VisitNeighbors(_, _, _)
\* for neighbor in adjacency[cur]: ... on the state st = [queue, visited, comp]
VisitNeighbors(nbrs, i, st) ==
  IF i > Len(nbrs) THEN st
  ELSE
    LET neighbor == nbrs[i] IN
    IF ~st.visited[neighbor]
    THEN VisitNeighbors(nbrs, i + 1,
           [queue |-> Append(st.queue, neighbor),
            visited |-> [st.visited EXCEPT ![neighbor] = TRUE],
            comp |-> Append(st.comp, neighbor)])
    ELSE VisitNeighbors(nbrs, i + 1, st)

RECURSIVE BfsLoop(_, _)
\* while queue: cur = queue.pop(0); ...
BfsLoop(adj, st) ==
  IF st.queue = << >> THEN st
  ELSE
    LET cur == Head(st.queue) IN
    BfsLoop(adj, VisitNeighbors(adj[cur], 1, [st EXCEPT !.queue = Tail(st.queue)]))

\* A traversal that stops at the direct neighbours of the start.
BfsFromShallow(adj, vis, idx) ==
  VisitNeighbors(adj[idx], 1,
                 [queue |-> << >>, visited |-> [vis EXCEPT ![idx] = TRUE],
                  comp |-> <<idx>>])

\* A traversal whose visited marks, but for the start, are lost on return.
BfsFromForgetful(adj, vis, idx) ==
  [BfsLoop(adj, [queue |-> <<idx>>,
                 visited |-> [vis EXCEPT ![idx] = TRUE],
                 comp |-> <<idx>>])
     EXCEPT !.visited = [vis EXCEPT ![idx] = TRUE]]

\* One turn of the outer loop for an unvisited idx:
\* queue = [idx]; visited[idx] = True; comp = [idx]; the while loop.
BfsFrom(adj, vis, idx) ==
  BfsLoop(adj, [queue |-> <<idx>>,
                visited |-> [vis EXCEPT ![idx] = TRUE],
                comp |-> <<idx>>])

RECURSIVE ClustersFrom(_, _, _, _)
\* for idx in range(n): the whole outer loop from idx on.
ClustersFrom(adj, vis, idx, cl) ==
  IF idx > Len(vis) THEN cl
  ELSE IF vis[idx] THEN ClustersFrom(adj, vis, idx + 1, cl)
  ELSE LET st == BfsFrom(adj, vis, idx)
       IN ClustersFrom(adj, st.visited, idx + 1, Append(cl, st.comp))

\* The clusters of a span list under given thresholds.
ClustersOf(sp, p) ==
  ClustersFrom(BuildAdjacency(sp, p), [k \in 1..Len(sp) |-> FALSE], 1, << >>)

----------------------------------------------------------------------------
(* cluster_spans_bfs: one Block per component (lines 286-317)              *)

\* The spans of a component left in traversal order.
UnsortedItems(sp, comp) == [i \in 1..Len(comp) |-> sp[comp[i]]]

\* sorted([spans[k] for k in comp], key=lambda s: (s.bbox.top, s.bbox.left))
SortedItems(sp, comp) == SortByTopLeft([i \in 1..Len(comp) |-> sp[comp[i]]])

RECURSIVE MinOf(_)
\* min(...) of a non-empty sequence of numbers
MinOf(xs) == IF Len(xs) = 1 THEN xs[1] ELSE Min2(Head(xs), MinOf(Tail(xs)))

RECURSIVE MaxOf(_)
\* max(...) of a non-empty sequence of numbers
MaxOf(xs) == IF Len(xs) = 1 THEN xs[1] ELSE Max2(Head(xs), MaxOf(Tail(xs)))

\* The representative style of the merged items (lines 300-308).
BlockStyle(items) ==
  FontStyle(items[1].style.font,
            MinOf([k \in 1..Len(items) |-> items[k].style.size]),
            \E k \in 1..Len(items) : items[k].style.bold,
            items[1].style.italic)

\* The envelope of the merged items (lines 291-294, 312).
BlockEnvelope(items) ==
  BoundingBox(MinOf([k \in 1..Len(items) |-> items[k].bbox.top]),
              MinOf([k \in 1..Len(items) |-> items[k].bbox.left]),
              MaxOf([k \in 1..Len(items) |-> items[k].bbox.bottom]),
              MaxOf([k \in 1..Len(items) |-> items[k].bbox.right]))

\* The body of `for comp in clusters`.
BuildBlock(sp, comp, short_span_limit) ==
  LET items == MergeShortSpans(SortedItems(sp, comp), short_span_limit)
  IN Block(BlockEnvelope(items), JoinTexts(<< >>, items), BlockStyle(items), items)

BuildBlocks(sp, cl, short_span_limit) ==
  [k \in 1..Len(cl) |-> BuildBlock(sp, cl[k], short_span_limit)]

----------------------------------------------------------------------------
(* inject_missing_underscores (lines 70-159)                               *)
(* A fitz.Rect is <<x0, y0, x1, y1>>, a missing 'rect' is << >>; a drawing *)
(* item is the tuple the code reads: <<"l", <<x0, y0>>, <<x1, y1>>>> or    *)
(* <<"re", rect>>, or <<op>> for any other operator.                       *)

\* The alternatives of pos_re (lines 106-113).
LabelWords ==
  {
    << \h0440, \h0443, \h043A, \h043E, \h0432, \h043E, \h0434, \h0438, \h0442, \h0435, \h043B, \h044C >>,
    << \h0434, \h0438, \h0440, \h0435, \h043A, \h0442, \h043E, \h0440 >>,
    << \h043F, \h0440, \h043E, \h0440, \h0435, \h043A, \h0442, \h043E, \h0440 >>,
    << \h0437, \h0430, \h0432, \h0435, \h0434, \h0443, \h044E, \h0449, \h0438, \h0439 >>,
    << \h043D, \h0430, \h0447, \h0430, \h043B, \h044C, \h043D, \h0438, \h043A >>
  }

\* pos_re.search(text)
PosReSearch(text) == \E w \in LabelWords : Contains(LowerText(text), w)

\* u.search(text) for u = re.compile(rf'_{(UNDERLINE_MIN_SEGMENTS,)}|_(?:\s*_){(3,)}'):
\* the f-string formats the tuples (4,) and (3,), so the pattern compiled is
\*   _(4,)|_(?:\s*_)(3,)
\* an underscore followed by "4,", or "_", whitespace, "_" followed by "3,".
UnderlineReSearch(text) ==
  \/ Contains(text, << \h5F, \h34, \h2C >>)
  \/ \E i \in 1..Len(text) : \E j \in (i + 1)..Len(text) :
       /\ text[i] = \h5F
       /\ \A k \in (i + 1)..(j - 1) : IsSpace(text[k])
       /\ text[j] = \h5F
       /\ j + 2 <= Len(text)
       /\ text[j + 1] = \h33
       /\ text[j + 2] = \h2C

\* A fitz.Rect taken as a line: the test of lines 84 and 95.
RectAsLine(r, y_tolerance, min_length) ==
  IF Abs(r[2] - r[4]) <= y_tolerance /\ (r[3] - r[1]) >= min_length
  THEN << r >>
  ELSE << >>

\* One drawing item (lines 87-96).
ItemAsLine(it, y_tolerance, min_length) ==
  IF it[1] = "l"
  THEN LET x0 == it[2][1]
           y0 == it[2][2]
           x1 == it[3][1]
           y1 == it[3][2]
       IN IF Abs(y0 - y1) <= y_tolerance /\ Abs(x1 - x0) >= min_length
          THEN << << Min2(x0, x1), y0, Max2(x0, x1), y1 >> >>
          ELSE << >>
  ELSE IF it[1] = "re" THEN RectAsLine(it[2], y_tolerance, min_length)
  ELSE << >>

\* The lines of one drawing dict: its 'rect', then its 'items' in order.
DrawingLines(d, y_tolerance, min_length) ==
  (IF d.rect # << >> THEN RectAsLine(d.rect, y_tolerance, min_length) ELSE << >>)
  \o Concat([k \in 1..Len(d.items) |-> ItemAsLine(d.items[k], y_tolerance, min_length)])

CollectHorizontalLines(draws, y_tolerance, min_length) ==
  Concat([k \in 1..Len(draws) |-> DrawingLines(draws[k], y_tolerance, min_length)])

\* mid_y, doubled
MidY2(bbox) == bbox.top + bbox.bottom

\* `already` (lines 121-123)
AlreadyUnderlined(left_block, text_blocks) ==
  \E k \in 1..Len(text_blocks) :
    /\ Abs(MidY2(text_blocks[k].bbox) - MidY2(left_block.bbox))
         <= 2 * SIGN_SAME_LINE_Y_TOL_PX
    /\ UnderlineReSearch(text_blocks[k].text)

\* The test of lines 130-133 for one line.
LineMatchesLabel(line, left_block) ==
  LET y_tol == SIGN_SAME_LINE_Y_TOL_PX
      overlaps_vertically ==
        ~(line[4] < left_block.bbox.top - y_tol
          \/ line[2] > left_block.bbox.bottom + y_tol)
  IN overlaps_vertically
     /\ line[3] > left_block.bbox.right + SIGN_LINE_RIGHT_MIN_GAP_PX

\* `candidate`: the first matching line in scan order, as a list of 0 or 1.
FindCandidate(lines, left_block) ==
  IF \E k \in 1..Len(lines) : LineMatchesLabel(lines[k], left_block)
  THEN LET first == CHOOSE k \in 1..Len(lines) :
                      /\ LineMatchesLabel(lines[k], left_block)
                      /\ \A m \in 1..(k - 1) : ~LineMatchesLabel(lines[m], left_block)
       IN << lines[first] >>
  ELSE << >>

\* The Block synthesized from a candidate line (lines 138-157).
FakeBlock(line) ==
  LET x0 == line[1]
      y0 == line[2]
      x1 == line[3]
      y1 == line[4]
      underline_len ==
        Max2(UNDERLINE_MIN_CHARS, (x1 - x0) \div UNDERLINE_PIXELS_PER_CHAR)
      fake_span ==
        Span(Repeat(\h5F, underline_len),
             BoundingBox(y0 - FAKE_UNDERLINE_Y_PAD_PX, x0,
                         y1 + FAKE_UNDERLINE_Y_PAD_PX, x1),
             FontStyle(FAKE_UNDERLINE_FONT_NAME, FAKE_UNDERLINE_FONT_SIZE_PT,
                       FALSE, FALSE))
  IN Block(fake_span.bbox, fake_span.text, fake_span.style, << fake_span >>)

\* What one turn of `for left_block in text_blocks` appends.
InjectFor(left_block, text_blocks, lines) ==
  IF ~PosReSearch(left_block.text) THEN << >>
  ELSE IF AlreadyUnderlined(left_block, text_blocks) THEN << >>
  ELSE LET candidate == FindCandidate(lines, left_block)
       IN IF candidate # << >> THEN << FakeBlock(candidate[1]) >> ELSE << >>

InjectMissingUnderscores(text_blocks, draws) ==
  LET lines == CollectHorizontalLines(draws, DRAWING_Y_TOLERANCE_PX,
                                      DRAWING_MIN_LENGTH_PX)
  IN IF lines = << >> THEN text_blocks
     ELSE text_blocks
          \o Concat([k \in 1..Len(text_blocks) |->
                       InjectFor(text_blocks[k], text_blocks, lines)])

\* blocks.sort(key=lambda b: (b.bbox.top, b.bbox.left)) (line 320)
SortBlocks(bs) == SortByTopLeft(bs)

----------------------------------------------------------------------------
(* watermark.py                                                            *)
(* A raw span is [text, bbox, color, font, size]; its bbox is              *)
(* [kind, vals]: kind "seq" with the values given, "none" for None and     *)
(* "missing" for a dict without the key.  A link is [uri, from]: uri a     *)
(* string ("" when the link has none), from a rect or << >> for None.      *)

\* _to_rect(span.get('bbox')): a missing key reads as None
ToRect(bbox) ==
  IF bbox.kind # "seq" \/ Len(bbox.vals) < 4 THEN << 0, 0, 0, 0 >>
  ELSE << bbox.vals[1], bbox.vals[2], bbox.vals[3], bbox.vals[4] >>

\* An intersection test that forgets the padding.
IntersectsNoPad(a, b, pad2) ==
  /\ Min2(2 * a[3], 2 * b[3]) - Max2(2 * a[1], 2 * b[1]) > 0
  /\ Min2(2 * a[4], 2 * b[4]) - Max2(2 * a[2], 2 * b[2]) > 0

\* _intersects(a, b, pad) on doubled coordinates, pad2 = 2 * pad
Intersects(a, b, pad2) ==
  /\ Min2(2 * a[3] + pad2, 2 * b[3]) - Max2(2 * a[1] - pad2, 2 * b[1]) > 0
  /\ Min2(2 * a[4] + pad2, 2 * b[4]) - Max2(2 * a[2] - pad2, 2 * b[2]) > 0

\* The regex \b before position p of t (p in 1..Len(t) + 1).
WordBoundary(t, p) ==
  (p - 1 >= 1 /\ IsWord(t[p - 1])) # (p <= Len(t) /\ IsWord(t[p]))

\* [a-z] under re.IGNORECASE: the characters that fold to a letter of a-z
\* (the ASCII letters, U+0130, U+0131, U+017F and U+212A)
IsDomainLetter(c) == LowerChar(c) \in \h61..\h7A

\* [a-z0-9-] under re.IGNORECASE
IsLabelChar(c) == IsDomainLetter(c) \/ c \in DigitChars \/ c = \h2D

\* t[a..e] matches (?:[a-z0-9-]+\.)+[a-z]{2,} with its last dot at d
DomainBodyAt(t, a, d, e) ==
  /\ a < d
  /\ d + 2 <= e
  /\ t[d] = \h2E
  /\ \A k \in (d + 1)..e : IsDomainLetter(t[k])
  /\ \A k \in a..(d - 1) : IsLabelChar(t[k]) \/ t[k] = \h2E
  /\ t[a] # \h2E
  /\ \A k \in a..(d - 1) : t[k] = \h2E => t[k + 1] # \h2E

\* The lengths (?:https?://)? can take at position p of t; the letters
\* are compared under re.IGNORECASE.
SchemeLengths(t, p) ==
  {0}
  \cup (IF p + 6 <= Len(t)
           /\ LowerText(SubSeq(t, p, p + 6))
                = << \h68, \h74, \h74, \h70, \h3A, \h2F, \h2F >>
        THEN {7} ELSE {})
  \cup (IF p + 7 <= Len(t)
           /\ LowerText(SubSeq(t, p, p + 7))
                = << \h68, \h74, \h74, \h70, \h73, \h3A, \h2F, \h2F >>
        THEN {8} ELSE {})

\* DOMAIN_RE.search(text) is not None
HasUrl(t) ==
  \E p \in 1..Len(t) :
    /\ WordBoundary(t, p)
    /\ \E e \in p..Len(t) :
         /\ WordBoundary(t, e + 1)
         /\ \E n \in SchemeLengths(t, p) : \E d \in (p + n)..e :
              DomainBodyAt(t, p + n, d, e)

\* [A-Za-z0-9._%+-]
IsEmailLocalChar(c) ==
  IsAsciiLetter(c) \/ c \in DigitChars \/ c \in { \h2E, \h5F, \h25, \h2B, \h2D }

\* [A-Za-z0-9.-]
IsEmailDomainChar(c) == IsAsciiLetter(c) \/ c \in DigitChars \/ c \in { \h2E, \h2D }

\* EMAIL_RE.search(text) is not None
HasEmail(t) ==
  \E a \in 2..Len(t) :
    /\ t[a] = \h40
    /\ IsEmailLocalChar(t[a - 1])
    /\ \E d \in (a + 2)..(Len(t) - 2) :
         /\ t[d] = \h2E
         /\ \A k \in (a + 1)..(d - 1) : IsEmailDomainChar(t[k])
         /\ IsAsciiLetter(t[d + 1])
         /\ IsAsciiLetter(t[d + 2])

\* link_rects (lines 95-109)
LinkRects(links, external_links_only) ==
  LET kept == SelectSeq(links, LAMBDA link :
                ~(external_links_only /\ link.uri = "") /\ link.from # << >>)
  IN [k \in 1..Len(kept) |-> kept[k].from]

\* The signals of one raw span (lines 117-123).
HasLinkHit(span, link_rects) ==
  \E k \in 1..Len(link_rects) : Intersects(ToRect(span.bbox), link_rects[k], 0)

IsNearWhite(span, use_color_hint, near_white_threshold) ==
  use_color_hint /\ span.color >= near_white_threshold

\* int(has_url) + int(has_email) + int(link_hit)
StrongCount(span, link_rects) ==
  (IF HasUrl(Strip(span.text)) THEN 1 ELSE 0)
  + (IF HasEmail(Strip(span.text)) THEN 1 ELSE 0)
  + (IF HasLinkHit(span, link_rects) THEN 1 ELSE 0)

\* The signal tags in the order the code appends them.
SignalsOf(span, link_rects, use_color_hint, near_white_threshold) ==
  (IF HasUrl(Strip(span.text)) THEN << "URL_TEXT" >> ELSE << >>)
  \o (IF HasEmail(Strip(span.text)) THEN << "EMAIL_TEXT" >> ELSE << >>)
  \o (IF HasLinkHit(span, link_rects) THEN << "LINK_HIT" >> ELSE << >>)
  \o (IF IsNearWhite(span, use_color_hint, near_white_threshold)
      THEN << "NEAR_WHITE" >> ELSE << >>)

\* A loop that makes a candidate of every span with a signal, weak or not.
CandidateOfAnySignal(span, link_rects, use_color_hint, near_white_threshold) ==
  LET text == Strip(span.text)
      signals == SignalsOf(span, link_rects, use_color_hint, near_white_threshold)
      strong == StrongCount(span, link_rects)
      weak == IF IsNearWhite(span, use_color_hint, near_white_threshold) THEN 1 ELSE 0
  IN IF text = << >> THEN << >>
     ELSE IF signals = << >> THEN << >>
     ELSE << [bbox |-> ToRect(span.bbox), text |-> text, signals |-> signals,
              score |-> strong * SCORE_STRONG_WEIGHT + weak] >>

\* What the loop of lines 112-144 appends for one raw span.
CandidateOf(span, link_rects, use_color_hint, near_white_threshold) ==
  LET text == Strip(span.text)
      signals == SignalsOf(span, link_rects, use_color_hint, near_white_threshold)
      strong == StrongCount(span, link_rects)
      weak == IF IsNearWhite(span, use_color_hint, near_white_threshold) THEN 1 ELSE 0
  IN IF text = << >> THEN << >>
     ELSE IF signals = << >> THEN << >>
     ELSE IF strong >= 1
          THEN << [bbox |-> ToRect(span.bbox), text |-> text, signals |-> signals,
                   score |-> strong * SCORE_STRONG_WEIGHT + weak] >>
          ELSE << >>

\* The sort key (-c.score, c.bbox[1], c.bbox[0]) compared.
CandidateKeyLeq(c1, c2) ==
  \/ -c1.score < -c2.score
  \/ /\ c1.score = c2.score
     /\ \/ c1.bbox[2] < c2.bbox[2]
        \/ (c1.bbox[2] = c2.bbox[2] /\ c1.bbox[1] <= c2.bbox[1])

RECURSIVE InsertCandidate(_, _)
InsertCandidate(c, sorted) ==
  IF sorted = << >> THEN <<c>>
  ELSE IF CandidateKeyLeq(Head(sorted), c)
       THEN <<Head(sorted)>> \o InsertCandidate(c, Tail(sorted))
       ELSE <<c>> \o sorted

RECURSIVE SortCandidates(_)
\* candidates.sort(key=...): stable
SortCandidates(cs) ==
  IF cs = << >> THEN << >>
  ELSE InsertCandidate(cs[Len(cs)], SortCandidates(SubSeq(cs, 1, Len(cs) - 1)))

FindTextualWatermarksOnPage(raw, links, use_color_hint, external_links_only, near_white_threshold) ==
  LET link_rects == LinkRects(links, external_links_only)
  IN SortCandidates(
       Concat([k \in 1..Len(raw) |->
                 CandidateOf(raw[k], link_rects, use_color_hint,
                             near_white_threshold)]))

\* wm_boxes of make_watermark_span_filter (lines 173-179)
WatermarkBoxes(raw, links, use_color_hint, external_links_only) ==
  LET cs == FindTextualWatermarksOnPage(raw, links, use_color_hint,
                                        external_links_only, NEAR_WHITE_DEFAULT)
  IN [k \in 1..Len(cs) |-> cs[k].bbox]

\* The predicate make_watermark_span_filter returns (lines 181-197).
IsWatermarkSpan(span, boxes, pad2) ==
  /\ boxes # << >>
  /\ \E k \in 1..Len(boxes) : Intersects(ToRect(span.bbox), boxes[k], pad2)

----------------------------------------------------------------------------
(* TextClustering.extract_spans (lines 161-196)                            *)

\* 'Bold' in font, 'Italic' in font, for the font names of the model
\* 'Bold' in span.get('font', '')
FontHasBold(font) == Contains(font, << \h42, \h6F, \h6C, \h64 >>)
\* 'Italic' in span.get('font', '')
FontHasItalic(font) == Contains(font, << \h49, \h74, \h61, \h6C, \h69, \h63 >>)

\* What indexing bbox_vals[0..3] raises, "" if nothing (lines 181-187).
BboxIndexError(bbox) ==
  IF bbox.kind = "missing" THEN ""
  ELSE IF bbox.kind = "none" THEN "TypeError"
  ELSE IF Len(bbox.vals) < 4 THEN "IndexError"
  ELSE ""

\* The Span built from a raw span whose bbox can be indexed (lines 181-194).
ToSpan(span) ==
  LET bbox_vals == IF span.bbox.kind = "missing" THEN << 0, 0, 0, 0 >>
                   ELSE span.bbox.vals
  IN Span(Strip(span.text),
          BoundingBox(bbox_vals[2], bbox_vals[1], bbox_vals[4], bbox_vals[3]),
          FontStyle(span.font, span.size, FontHasBold(span.font),
                    FontHasItalic(span.font)))

RECURSIVE ExtractLoop(_, _, _, _)
\* The loop over the raw spans from index i on: [raised, spans].
ExtractLoop(raw, i, boxes, acc) ==
  IF i > Len(raw) THEN [raised |-> "", spans |-> acc]
  ELSE IF IsWatermarkSpan(raw[i], boxes, PAD_DEFAULT_X2)
       THEN ExtractLoop(raw, i + 1, boxes, acc)
  ELSE IF Strip(raw[i].text) = << >> THEN ExtractLoop(raw, i + 1, boxes, acc)
  ELSE IF BboxIndexError(raw[i].bbox) # ""
       THEN [raised |-> BboxIndexError(raw[i].bbox), spans |-> acc]
  ELSE ExtractLoop(raw, i + 1, boxes, Append(acc, ToSpan(raw[i])))

\* skip_wm = make_watermark_span_filter(page, use_color_hint=False,
\*                                      external_links_only=True)
SkipBoxes(raw, links) == WatermarkBoxes(raw, links, FALSE, TRUE)

ExtractSpans(raw, links) == ExtractLoop(raw, 1, SkipBoxes(raw, links), << >>)

----------------------------------------------------------------------------
(* Inputs of the clustering model.                                         *)

\* The longest span list explored.
MaxSpans == 3

\* The font names 'Arial', 'Arial-Bold', 'Arial-Italic', 'Arial-BoldItalic'.
Arial == << \h41, \h72, \h69, \h61, \h6C >>

ArialBold == Arial \o << \h2D, \h42, \h6F, \h6C, \h64 >>

ArialItalic == Arial \o << \h2D, \h49, \h74, \h61, \h6C, \h69, \h63 >>

ArialBoldItalic == ArialBold \o << \h49, \h74, \h61, \h6C, \h69, \h63 >>

Regular == FontStyle(Arial, 12, FALSE, FALSE)
SmallBold == FontStyle(ArialBold, 8, TRUE, FALSE)
LargeItalic == FontStyle(ArialItalic, 14, FALSE, TRUE)

\* The spans a page is made of.  One text line at top 0 with fragments
\* close to each other, two spans sharing a (top, left) corner, a label of
\* the signature vocabulary further down, and a distant span.
SpanPool ==
  {
    \* 'Hello'
    Span(<< \h48, \h65, \h6C, \h6C, \h6F >>, BoundingBox(0, 0, 10, 30), Regular),
    \* the letters U+00E9 (e acute), 't', U+00E9
    Span(<< \hE9, \h74, \hE9 >>, BoundingBox(0, 0, 12, 8), LargeItalic),
    \* 'x'
    Span(<< \h78 >>, BoundingBox(0, 32, 10, 36), SmallBold),
    \* '__'
    Span(<< \h5F, \h5F >>, BoundingBox(0, 38, 10, 46), Regular),
    \* '_____'
    Span(<< \h5F, \h5F, \h5F, \h5F, \h5F >>, BoundingBox(0, 48, 10, 70), Regular),
    \* '--'
    Span(<< \h2D, \h2D >>, BoundingBox(0, 72, 10, 85), SmallBold),
    Span(<< \h0414, \h0438, \h0440, \h0435, \h043A, \h0442, \h043E, \h0440 >>, BoundingBox(40, 0, 50, 40), Regular),
    \* 'World'
    Span(<< \h57, \h6F, \h72, \h6C, \h64 >>, BoundingBox(44, 45, 60, 90), LargeItalic)
  }

\* The span lists of at most MaxSpans spans.
SpanLists == UNION { [1..n -> SpanPool] : n \in 0..MaxSpans }

\* The threshold settings explored: the defaults scaled to the pool;
\* everything adjacent; the same-line rule alone.
ParamChoices ==
  {
    [distance_threshold |-> 20, distance_vertical |-> 5,
     overlap_threshold |-> 3, short_span_limit |-> 5],
    [distance_threshold |-> 200, distance_vertical |-> 5,
     overlap_threshold |-> 3, short_span_limit |-> 2],
    [distance_threshold |-> 0, distance_vertical |-> 5,
     overlap_threshold |-> 3, short_span_limit |-> 2]
  }

\* page.get_drawings(): nothing, or one drawing with a thin rectangle, a
\* segment drawn right to left, a box that is no line and a curve.
DrawingChoices ==
  {
    << >>,
    << [rect |-> << 45, 45, 90, 47 >>,
        items |-> << << "l", << 130, 52 >>, << 45, 50 >> >>,
                     << "re", << 0, 0, 5, 5 >> >>,
                     << "c" >> >>] >>
  }

----------------------------------------------------------------------------
(* The state machine of cluster_spans_bfs on a constructed TextClustering. *)

NoPage ==
  /\ page_spans = << >>
  /\ page_links = << >>
  /\ page_drawings = << >>
  /\ flags = [use_color_hint |-> FALSE, external_links_only |-> TRUE]
  /\ candidates = << >>
  /\ wm_boxes = << >>
  /\ skip_boxes = << >>

\* No maybe_join_text call is being looked at on its own.
NoJoin ==
  /\ join_prev = << >>
  /\ join_next = << >>
  /\ joined = << >>

NotStarted ==
  /\ adjacency = << >>
  /\ visited = << >>
  /\ clusters = << >>
  /\ blocks = << >>
  /\ result = << >>

Init ==
  /\ pc = "start"
  /\ NoPage
  /\ spans \in SpanLists
  /\ drawings \in DrawingChoices
  /\ params \in ParamChoices
  /\ NotStarted
  /\ NoJoin

\* if not spans: raise EmptyPDFError (lines 234-237)
RaiseEmptyPDFError ==
  /\ pc = "start"
  /\ spans = << >>
  /\ pc' = "error"
  /\ UNCHANGED << join_prev, join_next, joined, page_spans, page_links, page_drawings, flags, candidates, wm_boxes, skip_boxes, spans,
                  drawings, params, adjacency, visited, clusters, blocks, result >>

\* The graph construction without the empty check in front of it.
BuildGraphUnguarded ==
  /\ pc = "start"
  /\ adjacency' = BuildAdjacency(spans, params)
  /\ visited' = [k \in 1..Len(spans) |-> FALSE]
  /\ clusters' = << >>
  /\ pc' = "bfs"
  /\ UNCHANGED << join_prev, join_next, joined, page_spans, page_links, page_drawings, flags, candidates, wm_boxes, skip_boxes, spans,
                  drawings, params, blocks, result >>

\* lines 239-267
BuildGraph ==
  /\ pc = "start"
  /\ spans # << >>
  /\ adjacency' = BuildAdjacency(spans, params)
  /\ visited' = [k \in 1..Len(spans) |-> FALSE]
  /\ clusters' = << >>
  /\ pc' = "bfs"
  /\ UNCHANGED << join_prev, join_next, joined, page_spans, page_links, page_drawings, flags, candidates, wm_boxes, skip_boxes, spans,
                  drawings, params, blocks, result >>

AllVisited == \A k \in 1..Len(visited) : visited[k]

\* One turn of `for idx in range(n)` that does not `continue`: the component
\* of the lowest unvisited index (lines 269-284).
BfsComponent ==
  /\ pc = "bfs"
  /\ ~AllVisited
  /\ LET idx == CHOOSE k \in 1..Len(visited) :
                  ~visited[k] /\ \A m \in 1..(k - 1) : visited[m]
         st == BfsFrom(adjacency, visited, idx)
     IN /\ visited' = st.visited
        /\ clusters' = Append(clusters, st.comp)
  /\ UNCHANGED << join_prev, join_next, joined, pc, page_spans, page_links, page_drawings, flags, candidates, wm_boxes, skip_boxes, spans,
                  drawings, params, adjacency, blocks, result >>

\* The loop over the clusters (lines 286-317).
AssembleBlocks ==
  /\ pc = "bfs"
  /\ AllVisited
  /\ blocks' = BuildBlocks(spans, clusters, params.short_span_limit)
  /\ pc' = "inject"
  /\ UNCHANGED << join_prev, join_next, joined, page_spans, page_links, page_drawings, flags, candidates, wm_boxes, skip_boxes, spans,
                  drawings, params, adjacency, visited, clusters, result >>

\* line 319
Inject ==
  /\ pc = "inject"
  /\ blocks' = InjectMissingUnderscores(blocks, drawings)
  /\ pc' = "sort"
  /\ UNCHANGED << join_prev, join_next, joined, page_spans, page_links, page_drawings, flags, candidates, wm_boxes, skip_boxes, spans,
                  drawings, params, adjacency, visited, clusters, result >>

\* lines 320-321; `blocks` keeps the list as it was before the sort.
SortAndReturn ==
  /\ pc = "sort"
  /\ result' = SortBlocks(blocks)
  /\ pc' = "done"
  /\ UNCHANGED << join_prev, join_next, joined, page_spans, page_links, page_drawings, flags, candidates, wm_boxes, skip_boxes, spans,
                  drawings, params, adjacency, visited, clusters, blocks >>

Next ==
  \/ RaiseEmptyPDFError
  \/ BuildGraph
  \/ BfsComponent
  \/ AssembleBlocks
  \/ Inject
  \/ SortAndReturn

Spec == Init /\ [][Next]_vars

----------------------------------------------------------------------------
(* Inputs of the construction model: a page's raw spans and links.         *)

\* The longest raw span list explored.
MaxPageSpans == 2

RawSpan(t, b, c, f) == [text |-> t, bbox |-> b, color |-> c, font |-> f, size |-> 10]

SeqBox(vals) == [kind |-> "seq", vals |-> vals]

\* Plain text; a URL; the same URL in a box of no width; plain text whose
\* box touches the URL's box; an e-mail address with bbox None; a blank
\* span; plain text under a hyperlink; plain text in white (0xFFFFFF);
\* plain text with a two-value bbox; plain text with no bbox key.
RawSpanPool ==
  {
    \* 'ab' and a carriage return
    RawSpan(<< \h61, \h62, \h0D >>, SeqBox(<< 0, 0, 10, 4 >>), 0, Arial),
    \* ' a.bc'
    RawSpan(<< \h20, \h61, \h2E, \h62, \h63 >>, SeqBox(<< 20, 0, 30, 4 >>), 0, ArialBold),
    \* 'a.bc'
    RawSpan(<< \h61, \h2E, \h62, \h63 >>, SeqBox(<< 5, 10, 5, 14 >>), 0, Arial),
    \* 'cd'
    RawSpan(<< \h63, \h64 >>, SeqBox(<< 30, 0, 34, 4 >>), 0, Arial),
    \* 'a@b.cd'
    RawSpan(<< \h61, \h40, \h62, \h2E, \h63, \h64 >>, [kind |-> "none", vals |-> << >>], 0, Arial),
    \* ' ' and a no-break space
    RawSpan(<< \h20, \hA0 >>, SeqBox(<< 0, 10, 4, 14 >>), 0, Arial),
    \* 'ef'
    RawSpan(<< \h65, \h66 >>, SeqBox(<< 0, 20, 10, 24 >>), 0, ArialBoldItalic),
    \* 'gh'
    RawSpan(<< \h67, \h68 >>, SeqBox(<< 40, 0, 50, 4 >>), 16777215, Arial),
    \* 'ij'
    RawSpan(<< \h69, \h6A >>, SeqBox(<< 1, 2 >>), 0, Arial),
    \* 'kl'
    RawSpan(<< \h6B, \h6C >>, [kind |-> "missing", vals |-> << >>], 0, ArialItalic)
  }

RawSpanLists == UNION { [1..n -> RawSpanPool] : n \in 0..MaxPageSpans }

\* page.get_links(): none; an external link over the span "ef"; the same
\* link without a URI followed by a link without a 'from' rect and an
\* external link over the white span "gh".
LinkChoices ==
  {
    << >>,
    << [uri |-> "http://x", from |-> << 0, 20, 10, 24 >>] >>,
    << [uri |-> "", from |-> << 0, 20, 10, 24 >>],
       [uri |-> "http://y", from |-> << >>],
       [uri |-> "http://z", from |-> << 40, 0, 50, 4 >>] >>
  }

FlagChoices == [use_color_hint : BOOLEAN, external_links_only : BOOLEAN]

----------------------------------------------------------------------------
(* The state machine of the construction of a TextClustering: the          *)
(* detector and the filter called with `flags`, then __init__, which       *)
(* fills self.spans with extract_spans().                                  *)

InitPage ==
  /\ pc = "page"
  /\ page_spans \in RawSpanLists
  /\ page_links \in LinkChoices
  /\ page_drawings \in DrawingChoices
  /\ flags \in FlagChoices
  /\ candidates = << >>
  /\ wm_boxes = << >>
  /\ skip_boxes = << >>
  /\ spans = << >>
  /\ drawings = << >>
  /\ params = [distance_threshold |-> 0, distance_vertical |-> 0,
               overlap_threshold |-> 0, short_span_limit |-> 0]
  /\ NotStarted
  /\ NoJoin

\* find_textual_watermarks_on_page(page, use_color_hint, external_links_only)
FindWatermarks ==
  /\ pc = "page"
  /\ candidates' = FindTextualWatermarksOnPage(page_spans, page_links,
                     flags.use_color_hint, flags.external_links_only,
                     NEAR_WHITE_DEFAULT)
  /\ pc' = "detected"
  /\ UNCHANGED << join_prev, join_next, joined, page_spans, page_links, page_drawings, flags, wm_boxes, skip_boxes, spans,
                  drawings, params, adjacency, visited, clusters, blocks, result >>

\* make_watermark_span_filter(page, use_color_hint, external_links_only)
MakeFilter ==
  /\ pc = "detected"
  /\ wm_boxes' = WatermarkBoxes(page_spans, page_links, flags.use_color_hint,
                                flags.external_links_only)
  /\ pc' = "filter"
  /\ UNCHANGED << join_prev, join_next, joined, page_spans, page_links, page_drawings, flags, candidates, skip_boxes, spans,
                  drawings, params, adjacency, visited, clusters, blocks, result >>

\* TextClustering.__init__ (lines 32-35): self.spans = self.extract_spans(),
\* then self.drawings = page.get_drawings().  When extract_spans raises,
\* neither attribute is assigned and no object is returned.
Construct ==
  /\ pc = "filter"
  /\ LET got == ExtractSpans(page_spans, page_links)
     IN IF got.raised = ""
        THEN /\ spans' = got.spans
             /\ drawings' = page_drawings
             /\ pc' = "constructed"
        ELSE /\ pc' = got.raised
             /\ UNCHANGED << spans, drawings >>
  /\ skip_boxes' = SkipBoxes(page_spans, page_links)
  /\ UNCHANGED << join_prev, join_next, joined, page_spans, page_links, page_drawings, flags, candidates, wm_boxes,
                  params, adjacency, visited, clusters, blocks, result >>

NextPage ==
  \/ FindWatermarks
  \/ MakeFilter
  \/ Construct

SpecPage == InitPage /\ [][NextPage]_vars

----------------------------------------------------------------------------
(* The whole pipeline: the construction of a TextClustering from a page,   *)
(* then cluster_spans_bfs called on the constructed object.                *)

\* The caller passes the thresholds of cluster_spans_bfs (lines 227-233).
StartClustering ==
  /\ pc = "constructed"
  /\ params' \in ParamChoices
  /\ pc' = "start"
  /\ UNCHANGED << join_prev, join_next, joined, page_spans, page_links, page_drawings, flags, candidates, wm_boxes, skip_boxes, spans,
                  drawings, adjacency, visited, clusters, blocks, result >>

NextPipeline ==
  \/ FindWatermarks
  \/ MakeFilter
  \/ Construct
  \/ StartClustering
  \/ RaiseEmptyPDFError
  \/ BuildGraph
  \/ BfsComponent
  \/ AssembleBlocks
  \/ Inject
  \/ SortAndReturn

SpecPipeline == InitPage /\ [][NextPipeline]_vars

----------------------------------------------------------------------------
(* maybe_join_text called on its own, on any two strings.                  *)

\* The longest text built from the alphabet.
MaxTextLen == 2

\* 'a', 'B', a space, a hyphen, an en dash, the Cyrillic vowel U+0430, an
\* underscore, a no-break space and the letter U+00E9 (e acute).
JoinAlphabet == { \h61, \h42, \h20, \h2D, \h2013, \h0430, \h5F, \hA0, \hE9 }

\* "Report", "Title", "inter-", "national"
SampleWords ==
  {
    \* 'Report'
    << \h52, \h65, \h70, \h6F, \h72, \h74 >>,
    \* 'Title'
    << \h54, \h69, \h74, \h6C, \h65 >>,
    \* 'inter-'
    << \h69, \h6E, \h74, \h65, \h72, \h2D >>,
    \* 'national'
    << \h6E, \h61, \h74, \h69, \h6F, \h6E, \h61, \h6C >>
  }

JoinTextChoices ==
  SampleWords \cup UNION { [1..n -> JoinAlphabet] : n \in 0..MaxTextLen }

InitJoin ==
  /\ pc = "join"
  /\ join_prev \in JoinTextChoices
  /\ join_next \in JoinTextChoices
  /\ joined = << >>
  /\ NoPage
  /\ spans = << >>
  /\ drawings = << >>
  /\ params = [distance_threshold |-> 0, distance_vertical |-> 0,
               overlap_threshold |-> 0, short_span_limit |-> 0]
  /\ NotStarted

\* maybe_join_text(prev_text, next_text)
Join ==
  /\ pc = "join"
  /\ joined' = MaybeJoinText(join_prev, join_next)
  /\ pc' = "joined"
  /\ UNCHANGED << join_prev, join_next, page_spans, page_links, page_drawings, flags, candidates,
                  wm_boxes, skip_boxes, spans, drawings, params, adjacency, visited,
                  clusters, blocks, result >>

NextJoin == Join

SpecJoin == InitJoin /\ [][NextJoin]_vars

\* cluster_spans_bfs as a function of its inputs (lines 234-321): the list
\* it returns, or the exception it raises on an empty span list.
ClusterSpansBfs(sp, p, draws) ==
  IF sp = << >> THEN [raised |-> "EmptyPDFError"]
  ELSE SortBlocks(InjectMissingUnderscores(
                    BuildBlocks(sp, ClustersOf(sp, p), p.short_span_limit), draws))

----------------------------------------------------------------------------
(* Properties of cluster_spans_bfs.                                        *)

\* The traversal has ended: every turn of `for idx in range(n)` is done.
TraversalEnded == pc \in {"inject", "sort", "done"} \/ (pc = "bfs" /\ AllVisited)

\* The Blocks of the components are built (and stay the first entries of
\* `blocks`: inject_missing_underscores only appends).
BlocksBuilt == pc \in {"inject", "sort", "done"}

\* The spans of component k in (top, left) order.
ComponentSpans(k) == SortedItems(spans, clusters[k])

\* The texts of a span list, whitespace removed, one after the other.
Characters(items) ==
  Concat([i \in 1..Len(items) |-> RemoveWhitespace(items[i].text)])

\* C1: when the traversal ends no component is empty and every span index
\* 1..n occurs exactly once in the components, all taken together.
C1_Partition ==
  TraversalEnded =>
    /\ \A c \in 1..Len(clusters) :
         /\ clusters[c] # << >>
         /\ \A i \in 1..Len(clusters[c]) : clusters[c][i] \in 1..Len(spans)
    /\ \A k \in 1..Len(spans) :
         Cardinality({ ci \in { <<c, i>> : c \in 1..Len(clusters), i \in 1..MaxSpans + 1 } :
                         /\ ci[2] <= Len(clusters[ci[1]])
                         /\ clusters[ci[1]][ci[2]] = k }) = 1

\* C1 witness: a finished traversal of three spans that found two components,
\* one of them with two spans.
C1_Witness ==
  /\ TraversalEnded
  /\ Len(spans) = 3
  /\ Len(clusters) = 2
  /\ \E c \in 1..Len(clusters) : Len(clusters[c]) = 2

\* C2: the text of the Block of every component, and the texts of its items
\* one after the other, hold exactly the non-whitespace characters of the
\* component's spans in (top, left) order; the Block is in the returned list.
C2_NoCharacterLost ==
  BlocksBuilt =>
    \A k \in 1..Len(clusters) :
      /\ RemoveWhitespace(blocks[k].text) = Characters(ComponentSpans(k))
      /\ Characters(blocks[k].items) = Characters(ComponentSpans(k))
      /\ pc = "done" => \E i \in 1..Len(result) : result[i] = blocks[k]

\* C2 witness: a returned Block of a component of three spans two of which
\* were fused into the first.
C2_Witness ==
  /\ pc = "done"
  /\ \E k \in 1..Len(clusters) :
       /\ Len(clusters[k]) = 3
       /\ Len(blocks[k].items) = 1

\* C3 as claimed: the style of the Block of a component is bold iff some
\* span of the component is bold, has the least size of all its spans, and
\* the font name and italic flag of its first span in (top, left) order.
C3_StyleOverAllSpans ==
  BlocksBuilt =>
    \A k \in 1..Len(clusters) :
      LET all == ComponentSpans(k) IN
      /\ blocks[k].style.bold = (\E i \in 1..Len(all) : all[i].style.bold)
      /\ blocks[k].style.size = MinOf([i \in 1..Len(all) |-> all[i].style.size])
      /\ blocks[k].style.font = all[1].style.font
      /\ blocks[k].style.italic = all[1].style.italic

\* C4 as claimed: in a component of two or more spans no entry of the
\* Block's items has a text shorter than short_span_limit.
C4_NoShortItem ==
  BlocksBuilt =>
    \A k \in 1..Len(clusters) :
      Len(clusters[k]) >= 2 =>
        \A j \in 1..Len(blocks[k].items) :
          Len(blocks[k].items[j].text) >= params.short_span_limit

\* C4 amended: every span of a component but the first in (top, left) order
\* that is shorter than short_span_limit is fused into the entry before it:
\* the items are the first span and one entry for each later span that is
\* not short, and every entry but the first is at least short_span_limit long.
C4_ShortFusedBackwards ==
  BlocksBuilt =>
    \A k \in 1..Len(clusters) :
      LET all == ComponentSpans(k)
          items == blocks[k].items
      IN /\ Len(items) =
              1 + Cardinality({ i \in 2..Len(all) :
                                  Len(all[i].text) >= params.short_span_limit })
         /\ \A j \in 2..Len(items) : Len(items[j].text) >= params.short_span_limit

\* C4 witness: a component whose first span is short and is followed by a
\* span that is not, and a later short span that was fused.
C4_Witness ==
  /\ pc = "done"
  /\ \E k \in 1..Len(clusters) :
       LET all == ComponentSpans(k) IN
       /\ Len(all) = 3
       /\ Len(all[1].text) < params.short_span_limit
       /\ Len(all[2].text) >= params.short_span_limit
       /\ Len(all[3].text) < params.short_span_limit
       /\ Len(blocks[k].items) = 2

\* Both texts are runs of underscores, or both are runs of dashes.
SameRule(t1, t2) ==
  \/ (OnlyUnderscores(t1) /\ OnlyUnderscores(t2))
  \/ (OnlyDashes(t1) /\ OnlyDashes(t2))

\* C5 as claimed: two spans of a component that follow each other in (top,
\* left) order and are both runs of underscores (or both runs of dashes)
\* appear in the Block's text as one run, whatever their lengths.
C5_RuleRunsJoined ==
  BlocksBuilt =>
    \A k \in 1..Len(clusters) :
      LET all == ComponentSpans(k) IN
      \A i \in 1..(Len(all) - 1) :
        SameRule(all[i].text, all[i + 1].text) =>
          Contains(blocks[k].text, all[i].text \o all[i + 1].text)

\* The keys (top, left) of a Block list.
KeysOf(bs) == { TopLeftKey(bs[i]) : i \in 1..Len(bs) }

\* The Blocks of a list that have a given key, in list order.
WithKey(bs, key) == SelectSeq(bs, LAMBDA b : TopLeftKey(b) = key)

\* C8: the returned list is ascending by (top, left), and the Blocks of
\* each key are those of the list before the sort (component Blocks in
\* discovery order, then the synthesized ones) in the same relative order.
C8_SortedAndStable ==
  pc = "done" =>
    /\ Len(result) = Len(blocks)
    /\ \A i \in 1..(Len(result) - 1) :
         KeyLeq(TopLeftKey(result[i]), TopLeftKey(result[i + 1]))
    /\ \A key \in KeysOf(blocks) \cup KeysOf(result) :
         WithKey(result, key) = WithKey(blocks, key)
    /\ \A k \in 1..Len(clusters) :
         blocks[k] = BuildBlock(spans, clusters[k], params.short_span_limit)

\* C8 witness: a returned list with a synthesized Block, two different
\* Blocks of equal (top, left), and an order other than before the sort.
C8_Witness ==
  /\ pc = "done"
  /\ Len(blocks) > Len(clusters)
  /\ result # blocks
  /\ \E i \in 1..Len(result) : \E j \in (i + 1)..Len(result) :
       /\ TopLeftKey(result[i]) = TopLeftKey(result[j])
       /\ result[i] # result[j]

\* The orders a list can be put in.
Reorderings(xs) ==
  { [i \in 1..Len(xs) |-> xs[f[i]]] :
      f \in { g \in [1..Len(xs) -> 1..Len(xs)] :
                \A a, b \in 1..Len(xs) : a # b => g[a] # g[b] } }

\* C9 as claimed: the returned list is the same for every order of the
\* input span list.
C9_OrderIndependent ==
  pc = "done" =>
    \A q \in Reorderings(spans) : ClusterSpansBfs(q, params, drawings) = result

\* Elements of a list that share (top, left) are equal.
TiesAreEqual(xs) ==
  \A i, j \in 1..Len(xs) : TopLeftKey(xs[i]) = TopLeftKey(xs[j]) => xs[i] = xs[j]

\* The spans of one component, in discovery order.
SpansOfCluster(k) == [i \in 1..Len(clusters[k]) |-> spans[clusters[k][i]]]

\* The Blocks built from the components (lines 286-317), and the Blocks
\* appended by inject_missing_underscores (lines 155-157), as they stand
\* before the final sort.
ComponentBlocks == SubSeq(blocks, 1, Len(clusters))

SynthesizedBlocks == SubSeq(blocks, Len(clusters) + 1, Len(blocks))

\* No stable sort of the run meets a tie it could resolve in two ways: the
\* sort of a component's spans (line 288) meets no two different spans of
\* equal (top, left), and the final sort (line 320) meets no two different
\* Blocks of equal (top, left) that are both built from components or both
\* synthesized.  A component Block and a synthesized Block may share
\* (top, left): the synthesized one is appended after every component
\* Block, whatever the order of the input.
NoOrderSensitiveTie ==
  /\ \A k \in 1..Len(clusters) : TiesAreEqual(SpansOfCluster(k))
  /\ TiesAreEqual(ComponentBlocks)
  /\ TiesAreEqual(SynthesizedBlocks)

\* C9 amended: provided that different spans of one component never share
\* (top, left), and different Blocks of the same kind (both built from
\* components, or both synthesized) never share (top, left), every order of
\* the input span list returns the same list.  The orders are compared with
\* the run whose input is in (top, left) order, which every span list has
\* among its orders and which the model runs as well.
C9_OrderIndependentNoTies ==
  (/\ pc = "done"
   /\ NoOrderSensitiveTie
   /\ spans = SortByTopLeft(spans)) =>
    \A q \in Reorderings(spans) : ClusterSpansBfs(q, params, drawings) = result

\* C9 witness: a run on three different spans in three components, with a
\* synthesized Block that shares (top, left) with a different component
\* Block, and an order of its input that discovers another component first.
C9_Witness ==
  /\ pc = "done"
  /\ NoOrderSensitiveTie
  /\ spans = SortByTopLeft(spans)
  /\ Len(spans) = 3
  /\ Cardinality({ spans[i] : i \in 1..Len(spans) }) = 3
  /\ Len(clusters) = 3
  /\ \E i \in 1..Len(ComponentBlocks) : \E j \in 1..Len(SynthesizedBlocks) :
       /\ TopLeftKey(ComponentBlocks[i]) = TopLeftKey(SynthesizedBlocks[j])
       /\ ComponentBlocks[i] # SynthesizedBlocks[j]
  /\ \E q \in Reorderings(spans) :
       /\ q # spans
       /\ q[ClustersOf(q, params)[1][1]] # spans[clusters[1][1]]

\* The distance thresholds the current run is compared with.
DistanceChoices == { 0, 20, 60, 200 }

\* The members of a component.
Members(comp) == { comp[i] : i \in 1..Len(comp) }

\* C10: with a distance threshold not below the current one (the other
\* thresholds kept) every component found is inside one component of the
\* larger threshold, and there are no more components.
C10_Monotone ==
  TraversalEnded =>
    \A d2 \in DistanceChoices :
      d2 >= params.distance_threshold =>
        LET wider == ClustersOf(spans, [params EXCEPT !.distance_threshold = d2])
        IN /\ \A c \in 1..Len(clusters) :
                \E w \in 1..Len(wider) : Members(clusters[c]) \subseteq Members(wider[w])
           /\ Len(wider) <= Len(clusters)

\* C10 witness: a larger threshold under which two components of the
\* current run are one.
C10_Witness ==
  /\ TraversalEnded
  /\ Len(clusters) >= 2
  /\ \E d2 \in DistanceChoices :
       /\ d2 > params.distance_threshold
       /\ Len(ClustersOf(spans, [params EXCEPT !.distance_threshold = d2]))
            < Len(clusters)

----------------------------------------------------------------------------
(* Properties of the watermark filter and of extract_spans.                *)

\* Raw span i is among the reported candidates.
IsReported(i) ==
  \E k \in 1..Len(candidates) :
    /\ candidates[k].text = Strip(page_spans[i].text)
    /\ candidates[k].bbox = ToRect(page_spans[i].bbox)

\* Raw span i went into self.spans.
IsExtracted(i) ==
  /\ BboxIndexError(page_spans[i].bbox) = ""
  /\ \E k \in 1..Len(spans) : spans[k] = ToSpan(page_spans[i])

\* The construction has returned.
Constructed == pc = "constructed"

\* C6 as claimed: every raw span reported as a candidate is rejected by the
\* predicate built for the same page and flags, whatever its box, and is
\* not in self.spans.
C6_CandidatesRejected ==
  (pc \in {"filter", "constructed", "TypeError", "IndexError"}) =>
    \A i \in 1..Len(page_spans) :
      IsReported(i) =>
        /\ IsWatermarkSpan(page_spans[i], wm_boxes, PAD_DEFAULT_X2)
        /\ ~IsExtracted(i)

\* Raw span i has text and none of the signals of the filter of
\* extract_spans (no color hint, external links only).
IsPlain(i) ==
  LET text == Strip(page_spans[i].text) IN
  /\ text # << >>
  /\ ~HasUrl(text)
  /\ ~HasEmail(text)
  /\ ~HasLinkHit(page_spans[i], LinkRects(page_links, TRUE))

\* C7 as claimed: a raw span with text and no signal is in self.spans,
\* whatever else is on the page.
C7_PlainSpanKept ==
  Constructed => \A i \in 1..Len(page_spans) : IsPlain(i) => IsExtracted(i)

\* Box a grown by one half on every side overlaps box b with positive area.
PaddedOverlap(a, b) ==
  /\ 2 * a[1] - 1 < 2 * b[3]
  /\ 2 * b[1] < 2 * a[3] + 1
  /\ 2 * a[2] - 1 < 2 * b[4]
  /\ 2 * b[2] < 2 * a[4] + 1
  /\ b[1] < b[3]
  /\ b[2] < b[4]

\* C7 amended: a raw span with text and no signal is left out of self.spans
\* exactly when its box, grown by 0.5, overlaps the box of a watermark
\* candidate of the page; with no candidate on the page it is always kept.
C7_PlainSpanKeptUnlessOverlapped ==
  Constructed =>
    \A i \in 1..Len(page_spans) :
      IsPlain(i) =>
        (IsExtracted(i) <=>
           ~\E k \in 1..Len(page_spans) :
              /\ CandidateOf(page_spans[k], LinkRects(page_links, TRUE), FALSE,
                             NEAR_WHITE_DEFAULT) # << >>
              /\ PaddedOverlap(ToRect(page_spans[i].bbox), ToRect(page_spans[k].bbox)))

\* C7 witness: a constructed page with a watermark box where a plain span,
\* touching the box, was left out of self.spans.
C7_Witness ==
  /\ Constructed
  /\ skip_boxes # << >>
  /\ \E i \in 1..Len(page_spans) : IsPlain(i) /\ ~IsExtracted(i)

\* The 'bbox' of raw span i is missing, None, or has fewer than four values.
IsMalformed(i) ==
  \/ page_spans[i].bbox.kind # "seq"
  \/ Len(page_spans[i].bbox.vals) < 4

\* C11 as claimed: a malformed bounding box never aborts the page: the
\* construction raises nothing, a reported candidate with a malformed box
\* has the box (0, 0, 0, 0), and so has, in self.spans, every span with a
\* malformed box and text that the filter does not reject.
C11_MalformedBoxTolerated ==
  /\ pc \notin {"TypeError", "IndexError"}
  /\ \A i \in 1..Len(page_spans) :
       IsMalformed(i) =>
         /\ \A k \in 1..Len(candidates) :
              candidates[k].text = Strip(page_spans[i].text) =>
                candidates[k].bbox = << 0, 0, 0, 0 >>
         /\ (/\ Constructed
             /\ Strip(page_spans[i].text) # << >>
             /\ ~IsWatermarkSpan(page_spans[i], skip_boxes, PAD_DEFAULT_X2)) =>
              \E k \in 1..Len(spans) :
                /\ spans[k].text = Strip(page_spans[i].text)
                /\ spans[k].bbox = BoundingBox(0, 0, 0, 0)

----------------------------------------------------------------------------
(* Properties of the pipeline.                                             *)

\* cluster_spans_bfs has been called on the constructed object.
Called == pc \in {"start", "error", "bfs", "inject", "sort", "done"}

\* Raw span i is blank or rejected by the filter of extract_spans.
IsDropped(i) ==
  \/ Strip(page_spans[i].text) = << >>
  \/ IsWatermarkSpan(page_spans[i], skip_boxes, PAD_DEFAULT_X2)

\* C12: the call ends with EmptyPDFError exactly when no span is left after
\* filtering, which is when every raw span of the page is blank or rejected
\* by the watermark filter; then no graph, component or Block was built and
\* nothing is returned; with a span left the call goes on and never raises.
C12_EmptyPageError ==
  /\ Called => ((spans = << >>) <=> (\A i \in 1..Len(page_spans) : IsDropped(i)))
  /\ pc = "error" => (spans = << >> /\ NotStarted)
  /\ pc \in {"bfs", "inject", "sort", "done"} => spans # << >>

\* C12 witness: the error raised on a page that has text, all of it removed
\* by the watermark filter.
C12_Witness ==
  /\ pc = "error"
  /\ page_spans # << >>
  /\ \A i \in 1..Len(page_spans) :
       /\ Strip(page_spans[i].text) # << >>
       /\ IsWatermarkSpan(page_spans[i], skip_boxes, PAD_DEFAULT_X2)

----------------------------------------------------------------------------
(* Properties of inject_missing_underscores.                               *)

\* inject_missing_underscores has returned.
Injected == pc \in {"sort", "done"}

\* The horizontal lines collected from the drawings of the page.
CollectedLines ==
  CollectHorizontalLines(drawings, DRAWING_Y_TOLERANCE_PX, DRAWING_MIN_LENGTH_PX)

\* The Blocks appended by inject_missing_underscores.
Synthesized == SubSeq(blocks, Len(clusters) + 1, Len(blocks))

\* Block b is what the claim describes for the line (x-left, y0, x-right, y1).
StraddlesLine(b, line) ==
  /\ Len(b.items) = 1
  /\ b.items[1].text = b.text
  /\ b.items[1].bbox = b.bbox
  /\ b.text = Repeat(\h5F, Max2(UNDERLINE_MIN_CHARS,
                               (line[3] - line[1]) \div UNDERLINE_PIXELS_PER_CHAR))
  /\ b.bbox.left = line[1]
  /\ b.bbox.right = line[3]
  /\ b.bbox.top <= line[2]
  /\ line[4] <= b.bbox.bottom
  /\ b.bbox.top <= b.bbox.bottom
  /\ b.bbox.top = Min2(line[2], line[4]) - FAKE_UNDERLINE_Y_PAD_PX
  /\ b.bbox.bottom = Max2(line[2], line[4]) + FAKE_UNDERLINE_Y_PAD_PX

\* C13 as claimed: every synthesized Block has one span, the underscore
\* count of its line, the line's left and right, and a box that straddles
\* the line and exceeds its vertical extent by FAKE_UNDERLINE_Y_PAD_PX on
\* each side, also for a segment drawn with y0 > y1.
C13_SyntheticStraddlesLine ==
  Injected =>
    \A k \in 1..Len(Synthesized) :
      \E n \in 1..Len(CollectedLines) : StraddlesLine(Synthesized[k], CollectedLines[n])

----------------------------------------------------------------------------
(* Properties of the graph and of its components.                          *)

\* j is in the adjacency list of i.
Edge(i, j) == \E m \in 1..Len(adjacency[i]) : adjacency[i][m] = j

\* The span indices a path of edges leads to from a set of indices.
RECURSIVE ReachableFrom(_)
ReachableFrom(S) ==
  LET more == S \cup { j \in 1..Len(spans) : \E i \in S : Edge(i, j) }
  IN IF more = S THEN S ELSE ReachableFrom(more)

\* Block k is the Block built from the spans of component k.
IsBlockOfCluster(k) ==
  blocks[k] = BuildBlock(spans, clusters[k], params.short_span_limit)

\* Spans i and j are constituents of the Block of one component.
InSameBlock(i, j) ==
  \E k \in 1..Len(clusters) :
    /\ i \in Members(clusters[k])
    /\ j \in Members(clusters[k])
    /\ IsBlockOfCluster(k)

\* The centers of all spans are pairwise closer than distance_threshold.
PairwiseClose ==
  \A i, j \in 1..Len(spans) :
    i # j => CentersCloserThan(spans[i].bbox, spans[j].bbox, params.distance_threshold)

\* C14: two spans are in the Block of one component exactly when a path of
\* adjacency edges connects them; there are as many such Blocks as the graph
\* has connected components; spans with pairwise close centers give one.
C14_BlocksAreComponents ==
  pc = "inject" =>
    /\ LET built == { k \in 1..Len(clusters) : IsBlockOfCluster(k) }
       IN \A i \in 1..Len(spans) :
            LET reached == ReachableFrom({i})
                together == UNION { Members(clusters[k]) :
                                      k \in { n \in built : i \in Members(clusters[n]) } }
            IN together = reached
    /\ Len(clusters) = Cardinality({ ReachableFrom({i}) : i \in 1..Len(spans) })
    /\ PairwiseClose => Len(clusters) = 1

\* C14 witness: three spans in one Block where two of them are connected
\* only through the third, and the centers are not pairwise close.
C14_Witness ==
  /\ pc = "done"
  /\ Len(spans) = 3
  /\ Len(clusters) = 1
  /\ ~PairwiseClose
  /\ \E i, j \in 1..Len(spans) : i # j /\ ~Edge(i, j) /\ InSameBlock(i, j)

\* The graph is built.
GraphBuilt == pc \in {"bfs", "inject", "sort", "done"}

\* The distance of the box centers of spans i and j is below
\* distance_threshold (squares of the doubled quantities).
CentersNear(i, j) ==
  LET dx == (spans[i].bbox.left + spans[i].bbox.right)
              - (spans[j].bbox.left + spans[j].bbox.right)
      dy == (spans[i].bbox.top + spans[i].bbox.bottom)
              - (spans[j].bbox.top + spans[j].bbox.bottom)
  IN /\ params.distance_threshold > 0
     /\ dx * dx + dy * dy < 4 * params.distance_threshold * params.distance_threshold

\* The vertical midpoints of spans i and j differ by less than
\* distance_vertical.
OnSameLine(i, j) ==
  Abs((spans[i].bbox.top + spans[i].bbox.bottom)
        - (spans[j].bbox.top + spans[j].bbox.bottom)) < 2 * params.distance_vertical

\* The horizontal gap between the extents of spans i and j; negative when
\* the extents overlap.
HorizontalGap(i, j) ==
  Max2(spans[i].bbox.left, spans[j].bbox.left)
    - Min2(spans[i].bbox.right, spans[j].bbox.right)

\* The right edge of one of the spans is less than overlap_threshold away
\* from the left edge of the other, on either side of it.
EdgesMeet(i, j) ==
  \/ Abs(spans[i].bbox.right - spans[j].bbox.left) < params.overlap_threshold
  \/ Abs(spans[j].bbox.right - spans[i].bbox.left) < params.overlap_threshold

\* C15 as claimed: spans i # j are adjacent, in both directions, exactly
\* when their centers are near or they are on the same line with extents
\* that overlap or are less than overlap_threshold apart.
C15_EdgeIffNearOrOverlapping ==
  GraphBuilt =>
    \A i, j \in 1..Len(spans) :
      i # j =>
        /\ Edge(i, j) <=> Edge(j, i)
        /\ Edge(i, j) <=>
             (CentersNear(i, j)
                \/ (OnSameLine(i, j) /\ HorizontalGap(i, j) < params.overlap_threshold))

\* C15 amended: spans i # j are adjacent, in both directions, exactly when
\* their centers are near or they are on the same line and the right edge
\* of one is less than overlap_threshold away from the left edge of the
\* other; no span is adjacent to itself and no edge is recorded twice.
C15_EdgeIffNearOrEdgesMeet ==
  GraphBuilt =>
    /\ Len(adjacency) = Len(spans)
    /\ \A i, j \in 1..Len(spans) :
         /\ Cardinality({ m \in 1..Len(adjacency[i]) : adjacency[i][m] = j }) <= 1
         /\ i = j => ~Edge(i, j)
         /\ i # j =>
              /\ Edge(i, j) <=> Edge(j, i)
              /\ Edge(i, j) <=> (CentersNear(i, j) \/ (OnSameLine(i, j) /\ EdgesMeet(i, j)))

\* C15 witness: a graph with an edge between two spans whose centers are
\* not near, and two spans on one line whose extents overlap by more than
\* overlap_threshold that are not adjacent.
C15_Witness ==
  /\ GraphBuilt
  /\ \E i, j \in 1..Len(spans) : i < j /\ Edge(i, j) /\ Edge(j, i) /\ ~CentersNear(i, j)
  /\ \E i, j \in 1..Len(spans) :
       /\ i # j
       /\ OnSameLine(i, j)
       /\ HorizontalGap(i, j) < 0 - params.overlap_threshold
       /\ ~Edge(i, j)

----------------------------------------------------------------------------
(* Properties of maybe_join_text.                                          *)

\* The reference join: either side empty, then the alphabetic rule, then
\* the rule for a previous text ending in a space or a dash, then a space.
ReferenceJoin(a, b) ==
  IF a = << >> THEN b
  ELSE IF b = << >> THEN a
  ELSE IF IsAlpha(a[Len(a)]) /\ IsAlpha(b[1])
       THEN IF IsUpper(b[1]) \/ a[Len(a)] \in RusVowels
            THEN a \o << \h20 >> \o b
            ELSE a \o b
  ELSE IF a[Len(a)] \in { \h20, \h2D, \h2013, \h2014 } THEN a \o b
  ELSE a \o << \h20 >> \o b

\* C16 as claimed: what maybe_join_text returns is the reference join of
\* its two arguments, for all strings.
C16_JoinIsReference ==
  pc = "joined" => joined = ReferenceJoin(join_prev, join_next)

\* C16 amended: with an empty previous text the next text is returned as it
\* is; otherwise the result is the reference join of the previous text and
\* the next text without its leading whitespace.
C16_JoinIsReferenceOfStripped ==
  pc = "joined" =>
    IF join_prev = << >> THEN joined = join_next
    ELSE \E k \in 0..Len(join_next) :
           /\ \A m \in 1..k : IsSpace(join_next[m])
           /\ k < Len(join_next) => ~IsSpace(join_next[k + 1])
           /\ joined = ReferenceJoin(join_prev, SubSeq(join_next, k + 1, Len(join_next)))

\* C16 witness: a next text with leading whitespace joined to a previous
\* text ending in a Cyrillic vowel, with one space between them.
C16_Witness ==
  /\ pc = "joined"
  /\ join_prev # << >>
  /\ join_prev[Len(join_prev)] \in RusVowels
  /\ Len(join_next) = 2
  /\ join_next[1] = \h20
  /\ join_next[2] = \h61
  /\ joined = join_prev \o << \h20, \h61 >>

----------------------------------------------------------------------------
(* Properties of find_textual_watermarks_on_page.                          *)

\* find_textual_watermarks_on_page has just returned.
Detected == pc = "detected"

\* The number of URL, e-mail and link-hit signals of raw span i under the
\* flags of the call.
StrongSignals(i) ==
  LET text == Strip(page_spans[i].text) IN
  (IF HasUrl(text) THEN 1 ELSE 0)
  + (IF HasEmail(text) THEN 1 ELSE 0)
  + (IF HasLinkHit(page_spans[i], LinkRects(page_links, flags.external_links_only))
     THEN 1 ELSE 0)

\* 1 if raw span i is near-white and color-hint mode is on, else 0.
WeakSignals(i) ==
  IF flags.use_color_hint /\ page_spans[i].color >= NEAR_WHITE_DEFAULT THEN 1 ELSE 0

\* Candidate c is the candidate of raw span i, with the claimed score.
IsCandidateOf(c, i) ==
  /\ c.text = Strip(page_spans[i].text)
  /\ c.bbox = ToRect(page_spans[i].bbox)
  /\ c.score = SCORE_STRONG_WEIGHT * StrongSignals(i) + WeakSignals(i)

\* The returned list is ordered by descending score, then top, then left.
CandidatesOrdered ==
  \A k \in 1..(Len(candidates) - 1) :
    \/ candidates[k].score > candidates[k + 1].score
    \/ /\ candidates[k].score = candidates[k + 1].score
       /\ \/ candidates[k].bbox[2] < candidates[k + 1].bbox[2]
          \/ /\ candidates[k].bbox[2] = candidates[k + 1].bbox[2]
             /\ candidates[k].bbox[1] <= candidates[k + 1].bbox[1]

\* C17 as claimed: the candidates are the non-blank spans with at least one
\* signal, near-white counted, each with score 3 x strong + 1 x near-white,
\* in descending score, then top, then left order.
C17_CandidateIffAnySignal ==
  Detected =>
    /\ \A i \in 1..Len(page_spans) :
         (Strip(page_spans[i].text) # << >> /\ StrongSignals(i) + WeakSignals(i) >= 1)
           <=> \E k \in 1..Len(candidates) : IsCandidateOf(candidates[k], i)
    /\ CandidatesOrdered

\* C17 amended: the candidates are the non-blank spans with at least one of
\* the URL, e-mail and link-hit signals, one candidate per such span, each
\* with score 3 x strong + 1 x near-white, in descending score, then top,
\* then left order; a span whose only signal is near-white is no candidate.
C17_CandidateIffStrongSignal ==
  Detected =>
    LET strong == { i \in 1..Len(page_spans) :
                      Strip(page_spans[i].text) # << >> /\ StrongSignals(i) >= 1 }
    IN /\ \A i \in 1..Len(page_spans) :
            i \in strong <=> \E k \in 1..Len(candidates) : IsCandidateOf(candidates[k], i)
       /\ \A k \in 1..Len(candidates) :
            \E i \in strong : IsCandidateOf(candidates[k], i)
       /\ Len(candidates) = Cardinality(strong)
       /\ CandidatesOrdered

\* C17 witness: a candidate with score 4 (link hit and near-white) ahead of
\* one with score 3.
C17_Witness ==
  /\ Detected
  /\ Len(candidates) = 2
  /\ candidates[1].score = 4
  /\ candidates[2].score = 3

----------------------------------------------------------------------------
(* Properties of the label search of inject_missing_underscores.           *)

\* The text holds four or more underscores in a row, or at least four
\* underscores with nothing but whitespace between them.
HasUnderscoreRun(text) ==
  \E a \in 1..Len(text) : \E b \in a..Len(text) :
    /\ \A m \in a..b : text[m] = \h5F \/ IsSpace(text[m])
    /\ Cardinality({ m \in a..b : text[m] = \h5F }) >= 4

\* The Blocks given to inject_missing_underscores.
InputBlocks == SubSeq(blocks, 1, Len(clusters))

\* Input Block k matches the label vocabulary.
IsLabel(k) == PosReSearch(InputBlocks[k].text)

\* Some input Block on the horizontal band of input Block k already holds
\* an underline.
HasUnderlineOnBand(k) ==
  \E m \in 1..Len(InputBlocks) :
    /\ Abs((InputBlocks[m].bbox.top + InputBlocks[m].bbox.bottom)
             - (InputBlocks[k].bbox.top + InputBlocks[k].bbox.bottom))
         <= 2 * SIGN_SAME_LINE_Y_TOL_PX
    /\ HasUnderscoreRun(InputBlocks[m].text)

\* C18 as claimed: a label with an underline already on its band gets no
\* synthetic Block, so there are at most as many synthetic Blocks as labels
\* without one.
C18_NoSyntheticWhenUnderlined ==
  Injected =>
    Len(Synthesized) <=
      Cardinality({ k \in 1..Len(InputBlocks) : IsLabel(k) /\ ~HasUnderlineOnBand(k) })

\* The line overlaps the box of input Block k vertically within the Y
\* tolerance and its right edge is at least SIGN_LINE_RIGHT_MIN_GAP_PX
\* beyond the right edge of the box.
LineQualifies(line, k) ==
  /\ ~(\/ line[4] < InputBlocks[k].bbox.top - SIGN_SAME_LINE_Y_TOL_PX
       \/ line[2] > InputBlocks[k].bbox.bottom + SIGN_SAME_LINE_Y_TOL_PX)
  /\ line[3] >= InputBlocks[k].bbox.right + SIGN_LINE_RIGHT_MIN_GAP_PX

\* What the claim has appended for input Block k: the Block built from the
\* first qualifying line, for a label that is not skipped.
ClaimedSynthetic(k) ==
  IF /\ IsLabel(k)
     /\ ~AlreadyUnderlined(InputBlocks[k], InputBlocks)
     /\ \E n \in 1..Len(CollectedLines) : LineQualifies(CollectedLines[n], k)
  THEN LET first == CHOOSE n \in 1..Len(CollectedLines) :
                      /\ LineQualifies(CollectedLines[n], k)
                      /\ \A m \in 1..(n - 1) : ~LineQualifies(CollectedLines[m], k)
       IN << FakeBlock(CollectedLines[first]) >>
  ELSE << >>

\* C19 as claimed: the input Blocks are kept unchanged, and after them
\* comes, for each label that is not skipped and has a qualifying line (a
\* right edge exactly at label.right + gap qualifies), the one Block built
\* from the first such line, in label order, and nothing else.
C19_OneSyntheticPerLabel ==
  Injected =>
    /\ InputBlocks = BuildBlocks(spans, clusters, params.short_span_limit)
    /\ Synthesized = Concat([k \in 1..Len(InputBlocks) |-> ClaimedSynthetic(k)])

====
